---- MODULE Spec2Model ----
(***************************************************************************)
(* Verification model of the Tiki e-commerce ETL: the value parsers and    *)
(* transform_data / run_transformation of scripts/transform_tiki.py, the   *)
(* trends transform of scripts/transform_google_trends.py, the fact load   *)
(* and the dimension merges of scripts/load_to_bq.py, and the task chains  *)
(* of dags/fx_rate_dag.py and dags/trends_dag.py.                          *)
(*                                                                         *)
(* Raw JSON values are tagged records (field k is the tag).  Text is a     *)
(* sequence of one-character strings; the two non-ASCII currency signs of  *)
(* clean_price are the tokens "U+0111" and "U+20AB".                       *)
(***************************************************************************)
EXTENDS Integers, Sequences, FiniteSets, TLC

VARIABLES
    \* ---- a call of one value parser -------------------------------------
    arg,            \* the raw value handed to the parser
    called,         \* the parser that was called, "none" before the call
    ret,            \* its outcome: Ret(v) or Raise(e)
    \* ---- one run of run_transformation(execution_date) ------------------
    raw_zone,       \* the .json files under the date's raw prefix, each a list of records
    pc,             \* position of the run
    raw_df,         \* the frame load_raw_data returned
    transformed,    \* the outcome of transform_data(raw_df): Ret(frames) or Raise(e)
    error,          \* the exception that left run_transformation, NoError if none
    clean_zone,     \* the three parquet objects of the date in the clean zone
    \* ---- the build the scripts run on -----------------------------------
    np_strict,      \* TRUE: bool() of an empty numpy array raises (numpy >= 2.2)
    sort_stable,    \* TRUE: the quicksort of sort_values keeps tied rows in input order
    \* ---- one call of transform_trends_data(raw_file_path) ----------------
    trends_csv,     \* the raw wide CSV: header, isPartial column or not, rows
    trends_out,     \* the outcome: Ret(rows of the parquet file) or Raise(e)
    \* ---- calls of load_categories_table(execution_date) ------------------
    clean_cat,      \* the dim_categories parquet of the date, NoObject if none
    dim_categories, \* the target table: category_id -> row, NoRow if absent
    temp_table,     \* temp_dim_categories_<date>, NoTable when it does not exist
    load_pc,        \* position of the running call
    loads,          \* calls started so far
    \* ---- runs of the DAG tiki_exchange_rate_ingest -----------------------
    dim_exchange_rate, \* the target table: its rows, NoTable before the first load
    fx_task,        \* the task instance to run next, or the state of the run
    fx_try,         \* failed tries of that task instance so far
    ds,             \* the logical date of the run
    xcom,           \* what the tasks of the run have pushed
    fx_runs,        \* DAG runs started so far
    \* ---- runs of the DAG tiki_google_trends_analytics --------------------
    staging,        \* the staging table the merge reads
    fact_google_trends, \* the target table: its rows
    fact_before,    \* history: the target table as the last merge found it
    trends_task,    \* the task to run next, or the state of the run
    trends_runs,    \* DAG runs started so far
    \* ---- calls of load_fact_table(execution_date) ------------------------
    fact_zone,      \* clean-zone fact objects: execution date -> parquet
    fact_daily_snapshot, \* the target table: rows, each in its partition
    snapshot_before, \* history: the target table as the last call found it
    fact_load,      \* the outcome of the last call: Ret(date) or Raise(e)
    fact_partitioning, \* how the table was created: by column or by load time
    fact_steps,     \* transform runs and load calls so far
    \* ---- calls of load_dimension_table(execution_date) -------------------
    dim_zone,       \* clean-zone dim_products objects: execution date -> parquet
    dim_products,   \* the target table: its rows
    products_before, \* history: the target table as the last call found it
    dim_load,       \* the outcome of the last call: Ret(date) or Raise(e)
    dim_steps,      \* transform runs and load calls so far
    \* ---- a second call of transform_data on the same frame ---------------
    rerun,          \* its outcome: Ret(frames) or Raise(e), NotCalled before
    wall_clock,     \* seconds on the clock since the first call
    \* ---- one call of fetch_batch_with_retry(keywords, timeframe, geo) ----
    cache_file,     \* the cache file of the query's key, NoObject if none
    cache_found,    \* history: the cache file as the call found it
    responses,      \* what each request attempt so far ended with
    waited,         \* the seconds smart_delay slept before each retry
    fetch_out       \* the outcome of the call: Ret(frame or None), NotCalled before

pvars == <<arg, called, ret>>
tvars == <<raw_zone, pc, raw_df, transformed, error, clean_zone>>
bvars == <<np_strict, sort_stable>>
gvars == <<trends_csv, trends_out>>
lvars == <<clean_cat, dim_categories, temp_table, load_pc, loads>>
xvars == <<dim_exchange_rate, fx_task, fx_try, ds, xcom, fx_runs>>
svars == <<staging, fact_google_trends, fact_before, trends_task, trends_runs>>
fvars == <<fact_zone, fact_daily_snapshot, snapshot_before, fact_load,
           fact_partitioning, fact_steps>>
dvars == <<dim_zone, dim_products, products_before, dim_load, dim_steps>>
rvars == <<rerun, wall_clock>>
cvars == <<cache_file, cache_found, responses, waited, fetch_out>>
wvars == <<xvars, svars, fvars, dvars, rvars, cvars>>
vars == <<pvars, tvars, bvars, gvars, lvars, wvars>>

(***************************************************************************)
(* Bounds of the model.                                                    *)
(***************************************************************************)
MaxStrLen == 3      \* longest enumerated text handed to a parser
MaxListLen == 2     \* longest enumerated list handed to a parser
MaxBatch == 3       \* most raw records under one date's prefix

(***************************************************************************)
(* Raw values (json.loads of a raw-zone file, then pd.DataFrame).          *)
(***************************************************************************)
NULL == [k |-> "null"]                  \* JSON null / None
ABSENT == [k |-> "absent"]              \* key not in the record: NaN in the frame
NAN == [k |-> "nan"]                    \* float NaN
INF == [k |-> "inf", neg |-> FALSE]     \* float +infinity
NEGINF == [k |-> "inf", neg |-> TRUE]   \* float -infinity
B(b) == [k |-> "bool", b |-> b]
I(n) == [k |-> "int", n |-> n]
Fl(t) == [k |-> "float", t |-> t]       \* the finite float t / 10
S(s) == [k |-> "str", s |-> s]
L(items) == [k |-> "list", items |-> items]
Date(y, m, d) == [k |-> "date", y |-> y, m |-> m, d |-> d]

\* The outcome of a call: a returned value or a raised exception.
Ret(v) == [k |-> "ret", v |-> v]
Raise(e) == [k |-> "raise", e |-> e]

Min(set) == CHOOSE x \in set : \A y \in set : x <= y
Max(set) == CHOOSE x \in set : \A y \in set : x >= y
Abs(n) == IF n < 0 THEN -n ELSE n
\* int(x) of a float x = t / 10: truncation toward zero
TruncTenths(t) == IF t >= 0 THEN t \div 10 ELSE -((-t) \div 10)

(***************************************************************************)
(* Text helpers: what the regular expressions of the parsers match.        *)
(***************************************************************************)
Digits == {"0", "1", "2", "3", "4", "5", "6", "7", "8", "9"}
IsDigit(c) == c \in Digits
DigitVal(c) ==
    CASE c = "0" -> 0 [] c = "1" -> 1 [] c = "2" -> 2 [] c = "3" -> 3
      [] c = "4" -> 4 [] c = "5" -> 5 [] c = "6" -> 6 [] c = "7" -> 7
      [] c = "8" -> 8 [] c = "9" -> 9
DigitChar(d) ==
    CASE d = 0 -> "0" [] d = 1 -> "1" [] d = 2 -> "2" [] d = 3 -> "3"
      [] d = 4 -> "4" [] d = 5 -> "5" [] d = 6 -> "6" [] d = 7 -> "7"
      [] d = 8 -> "8" [] d = 9 -> "9"
IsSpace(c) == c \in {" ", "\t", "\n"}

RECURSIVE ToInt(_)
ToInt(s) ==
    IF s = <<>> THEN 0
    ELSE 10 * ToInt(SubSeq(s, 1, Len(s) - 1)) + DigitVal(s[Len(s)])

RECURSIVE NatToChars(_)
NatToChars(n) ==
    IF n < 10 THEN <<DigitChar(n)>>
    ELSE Append(NatToChars(n \div 10), DigitChar(n % 10))

IntToChars(n) == IF n < 0 THEN <<"-">> \o NatToChars(-n) ELSE NatToChars(n)

RECURSIVE Pow10(_)
Pow10(n) == IF n = 0 THEN 1 ELSE 10 * Pow10(n - 1)

\* index of the last character of the digit run that holds position i
RECURSIVE RunEnd(_, _)
RunEnd(s, i) ==
    IF i < Len(s) /\ IsDigit(s[i + 1]) THEN RunEnd(s, i + 1) ELSE i

\* first index >= p that holds no whitespace (Len(s) + 1 when there is none)
RECURSIVE SkipSpaces(_, _)
SkipSpaces(s, p) ==
    IF p <= Len(s) /\ IsSpace(s[p]) THEN SkipSpaces(s, p + 1) ELSE p

LowerChar(c) ==
    CASE c = "K" -> "k" [] c = "T" -> "t" [] c = "R" -> "r" [] c = "M" -> "m"
      [] c = "V" -> "v" [] c = "N" -> "n" [] c = "D" -> "d" [] c = "Z" -> "z"
      [] c = "C" -> "c" [] c = "X" -> "x"
      [] OTHER -> c
Lower(s) == [i \in 1..Len(s) |-> LowerChar(s[i])]

Strip(s) ==
    LET keep == {i \in 1..Len(s) : ~IsSpace(s[i])}
    IN  IF keep = {} THEN <<>> ELSE SubSeq(s, Min(keep), Max(keep))

\* the characters of s that satisfy Keep, in order
RECURSIVE FilterChars(_, _)
FilterChars(s, keepSet) ==
    IF s = <<>> THEN <<>>
    ELSE (IF Head(s) \in keepSet THEN <<Head(s)>> ELSE <<>>)
         \o FilterChars(Tail(s), keepSet)

\* re.search(r'(\d+)', s): the first run of digits, <<>> when s holds no digit
FirstDigitRun(s) ==
    LET at == {i \in 1..Len(s) : IsDigit(s[i])}
    IN  IF at = {} THEN <<>> ELSE SubSeq(s, Min(at), RunEnd(s, Min(at)))

\* re.search(r'/c(\d+)', s): the digits after the first "/c" that a digit follows
CategoryDigits(s) ==
    LET at == {i \in 1..Len(s) : /\ i + 2 <= Len(s)
                                 /\ s[i] = "/"
                                 /\ s[i + 1] = "c"
                                 /\ IsDigit(s[i + 2])}
    IN  IF at = {} THEN <<>>
        ELSE SubSeq(s, Min(at) + 2, RunEnd(s, Min(at) + 2))

\* "." and exactly three digits at positions p .. p+3
Group3At(s, p) ==
    /\ p + 3 <= Len(s)
    /\ s[p] = "."
    /\ IsDigit(s[p + 1]) /\ IsDigit(s[p + 2]) /\ IsDigit(s[p + 3])

\* (?:\.\d{3})+ is greedy: e is the last index matched so far
RECURSIVE GroupsEnd(_, _)
GroupsEnd(s, e) == IF Group3At(s, e + 1) THEN GroupsEnd(s, e + 4) ELSE e

\* \d{1,3}(?:\.\d{3})+ can start at i: at most 3 digits up to the first "."
ThousandsAt(s, i) ==
    /\ IsDigit(s[i])
    /\ RunEnd(s, i) - i + 1 <= 3
    /\ Group3At(s, RunEnd(s, i) + 1)

\* the digits of the leftmost match of \d{1,3}(?:\.\d{3})+ , <<>> without one
ThousandsDigits(s) ==
    LET at == {i \in 1..Len(s) : ThousandsAt(s, i)}
    IN  IF at = {} THEN <<>>
        ELSE FilterChars(SubSeq(s, Min(at), GroupsEnd(s, RunEnd(s, Min(at)) + 4)),
                         Digits)

\* the alternative of (k|tr|m|trieu|triệu) that matches at q, "" when none does
\* ("tr" stands before "trieu" and "triệu", so those two never match)
SuffixAt(s, q) ==
    IF q > Len(s) THEN ""
    ELSE IF s[q] = "k" THEN "k"
    ELSE IF s[q] = "t" /\ q + 1 <= Len(s) /\ s[q + 1] = "r" THEN "tr"
    ELSE IF s[q] = "m" THEN "m"
    ELSE ""

\* the match of (\d+(?:[.,]\d+)?)\s*(k|tr|m|trieu|triệu) that starts at i
SuffixMatch(s, i) ==
    LET e1 == RunEnd(s, i)
        hasFrac == /\ e1 + 2 <= Len(s)
                   /\ s[e1 + 1] \in {".", ","}
                   /\ IsDigit(s[e1 + 2])
        e2 == IF hasFrac THEN RunEnd(s, e1 + 2) ELSE e1
        withFrac == IF hasFrac THEN SuffixAt(s, SkipSpaces(s, e2 + 1)) ELSE ""
        noFrac == SuffixAt(s, SkipSpaces(s, e1 + 1))
    IN  IF withFrac # ""
        THEN [ok |-> TRUE, int |-> SubSeq(s, i, e1),
              frac |-> SubSeq(s, e1 + 2, e2), suffix |-> withFrac]
        ELSE [ok |-> noFrac # "", int |-> SubSeq(s, i, e1),
              frac |-> <<>>, suffix |-> noFrac]

\* multipliers.get(suffix, 1)
Multiplier(suffix) == IF suffix = "k" THEN 1000 ELSE 1000000

\* The decimal texts <<int part, fraction, fraction digits, multiplier>> whose
\* IEEE-754 double product float(text) * multiplier lies just below the exact
\* product, so that int() gives one less (int part < 100 with one fraction
\* digit, int part < 10 with two).
FloatProductShort ==
    { <<2, 1, 2, 1000>>, <<2, 3, 2, 1000>>, <<4, 2, 2, 1000>>, <<4, 6, 2, 1000>>,
      <<8, 3, 2, 1000>>, <<8, 4, 2, 1000>>, <<8, 11, 2, 1000>>, <<8, 12, 2, 1000>>,
      <<8, 19, 2, 1000>>, <<32, 3, 1, 1000>>, <<64, 1, 1, 1000>>,
      <<64, 6, 1, 1000>>, <<65, 1, 1, 1000>>,
      <<2, 1, 2, 1000000>>, <<2, 3, 2, 1000000>>, <<2, 5, 2, 1000000>>,
      <<2, 7, 2, 1000000>>, <<2, 9, 2, 1000000>>, <<4, 1, 1, 1000000>>,
      <<4, 2, 2, 1000000>>, <<4, 6, 2, 1000000>>, <<4, 10, 2, 1000000>>,
      <<4, 14, 2, 1000000>>, <<4, 18, 2, 1000000>>, <<8, 2, 1, 1000000>>,
      <<8, 3, 2, 1000000>>, <<8, 4, 2, 1000000>>, <<8, 11, 2, 1000000>>,
      <<8, 12, 2, 1000000>>, <<8, 19, 2, 1000000>>, <<8, 20, 2, 1000000>>,
      <<8, 28, 2, 1000000>>, <<8, 29, 2, 1000000>>, <<8, 36, 2, 1000000>>,
      <<8, 37, 2, 1000000>>, <<16, 4, 1, 1000000>>, <<32, 3, 1, 1000000>>,
      <<32, 8, 1, 1000000>>, <<33, 3, 1, 1000000>>, <<64, 1, 1, 1000000>>,
      <<64, 6, 1, 1000000>>, <<65, 1, 1, 1000000>>, <<65, 6, 1, 1000000>>,
      <<66, 1, 1, 1000000>>, <<66, 6, 1, 1000000>>, <<67, 1, 1, 1000000>> }

\* int(float(int "." frac) * mult)
FloatTimes(int, frac, mult) ==
    LET f == Len(frac)
        exact == ToInt(int) * mult + (ToInt(frac) * mult) \div Pow10(f)
    IN  IF <<ToInt(int), ToInt(frac), f, mult>> \in FloatProductShort
        THEN exact - 1 ELSE exact

(***************************************************************************)
(* str(value) and repr(item), as the parsers see a non-text value.         *)
(***************************************************************************)
TenthsToChars(t) ==
    (IF t < 0 THEN <<"-">> ELSE <<>>)
    \o NatToChars(Abs(t) \div 10) \o <<".">> \o <<DigitChar(Abs(t) % 10)>>

ScalarToChars(v) ==
    CASE v.k = "str" -> v.s
      [] v.k = "int" -> IntToChars(v.n)
      [] v.k = "float" -> TenthsToChars(v.t)
      [] v.k = "bool" -> IF v.b THEN <<"T", "r", "u", "e">>
                         ELSE <<"F", "a", "l", "s", "e">>
      [] v.k = "inf" -> IF v.neg THEN <<"-", "i", "n", "f">> ELSE <<"i", "n", "f">>
      [] v.k = "nan" -> <<"n", "a", "n">>
      [] OTHER -> <<"N", "o", "n", "e">>

ReprOf(v) == IF v.k = "str" THEN <<"'">> \o v.s \o <<"'">> ELSE ScalarToChars(v)

RECURSIVE JoinRepr(_)
JoinRepr(items) ==
    IF items = <<>> THEN <<>>
    ELSE IF Len(items) = 1 THEN ReprOf(items[1])
    ELSE ReprOf(items[1]) \o <<",", " ">> \o JoinRepr(Tail(items))

StrOf(v) ==
    IF v.k = "list" THEN <<"[">> \o JoinRepr(v.items) \o <<"]">>
    ELSE ScalarToChars(v)

(***************************************************************************)
(* `pd.isna(value) or value is None`, the first test of every parser.      *)
(* pd.isna of a list is an array, and `or` takes its truth value: that of  *)
(* its only element, an error for two or more elements, and for no element *)
(* False or an error, depending on the numpy of the build.                 *)
(***************************************************************************)
IsNA(v) == v.k \in {"null", "absent", "nan"}

NaTest(v, strict) ==
    IF v.k = "list"
    THEN CASE Len(v.items) = 0 -> IF strict THEN "raise" ELSE "value"
           [] Len(v.items) = 1 -> IF IsNA(v.items[1]) THEN "na" ELSE "value"
           [] OTHER -> "raise"
    ELSE IF IsNA(v) THEN "na" ELSE "value"

\* isinstance(value, (int, float)); bool is a subclass of int
IsNumber(v) == v.k \in {"int", "float", "bool", "inf"}

\* int(value) of a number: OverflowError for an infinity
IntOf(v) ==
    CASE v.k = "int" -> Ret(v.n)
      [] v.k = "bool" -> Ret(IF v.b THEN 1 ELSE 0)
      [] v.k = "float" -> Ret(TruncTenths(v.t))
      [] OTHER -> Raise("OverflowError")

(***************************************************************************)
(* The value parsers of transform_tiki.py.                                 *)
(***************************************************************************)
\* parse_sales_volume on the lower-cased, stripped text
SalesOfText(text) ==
    LET at == {i \in 1..Len(text) : IsDigit(text[i]) /\ SuffixMatch(text, i).ok}
    IN  IF at # {}
        THEN LET m == SuffixMatch(text, Min(at))
             IN  FloatTimes(m.int, m.frac, Multiplier(m.suffix))
        ELSE IF ThousandsDigits(text) # <<>> THEN ToInt(ThousandsDigits(text))
        ELSE ToInt(FirstDigitRun(text))

parse_sales_volume(value, strict) ==
    CASE NaTest(value, strict) = "na" -> Ret(I(0))
      [] NaTest(value, strict) = "raise" -> Raise("ValueError")
      [] OTHER ->
           IF IsNumber(value)
           THEN IF IntOf(value).k = "raise" THEN IntOf(value)
                ELSE Ret(I(IntOf(value).v))
           ELSE Ret(I(SalesOfText(Strip(Lower(StrOf(value))))))

parse_discount_rate(value, strict) ==
    CASE NaTest(value, strict) = "na" -> Ret(I(0))
      [] NaTest(value, strict) = "raise" -> Raise("ValueError")
      [] OTHER ->
           IF IsNumber(value)
           THEN IF IntOf(value).k = "raise" THEN IntOf(value)
                ELSE Ret(I(Abs(IntOf(value).v)))
           ELSE Ret(I(ToInt(FirstDigitRun(Strip(StrOf(value))))))

extract_category_id(url, strict) ==
    CASE NaTest(url, strict) = "na" -> Ret(NULL)
      [] NaTest(url, strict) = "raise" -> Raise("ValueError")
      [] OTHER ->
           IF CategoryDigits(StrOf(url)) = <<>> THEN Ret(NULL)
           ELSE Ret(I(ToInt(CategoryDigits(StrOf(url)))))

\* (?:\s*(?:đ|VND|₫))?[\s]*$ with re.IGNORECASE, on what follows the number
CurrencyTail(rest) ==
    \/ rest = <<>>
    \/ Lower(SubSeq(rest, SkipSpaces(rest, 1), Len(rest)))
          \in {<<"U+0111">>, <<"v", "n", "d">>, <<"U+20AB">>}

\* re.match(thousand_sep_pattern, text): the digits of the number, <<>> without a match
StrictThousands(text) ==
    IF /\ text # <<>>
       /\ ThousandsAt(text, 1)
       /\ CurrencyTail(SubSeq(text, GroupsEnd(text, RunEnd(text, 1) + 4) + 1, Len(text)))
    THEN FilterChars(SubSeq(text, 1, GroupsEnd(text, RunEnd(text, 1) + 4)), Digits)
    ELSE <<>>

\* int(float(cleaned)) of a text of digits and dots: None on ValueError
IntOfFloatText(cleaned) ==
    LET dots == {i \in 1..Len(cleaned) : cleaned[i] = "."}
    IN  IF Cardinality(dots) > 1 \/ Cardinality(dots) = Len(cleaned) THEN NULL
        ELSE IF dots = {} THEN I(ToInt(cleaned))
        ELSE I(ToInt(SubSeq(cleaned, 1, Min(dots) - 1)))

\* the fallback alone, without the thousands-separator pattern
price_by_fallback(text) ==
    LET cleaned == FilterChars(text, Digits \cup {"."})
    IN  IF cleaned = <<>> THEN NULL ELSE IntOfFloatText(cleaned)

\* lines 324-347: the strict pattern first, then the fallback
PriceOfText(text) ==
    IF StrictThousands(text) # <<>> THEN I(ToInt(StrictThousands(text)))
    ELSE LET cleaned == FilterChars(text, Digits \cup {"."})
         IN  IF cleaned = <<>> THEN NULL ELSE IntOfFloatText(cleaned)

clean_price(value, strict) ==
    CASE NaTest(value, strict) = "na" -> Ret(NULL)
      [] NaTest(value, strict) = "raise" -> Raise("ValueError")
      [] OTHER ->
           IF IsNumber(value)
           THEN IF IntOf(value).k = "raise" THEN IntOf(value)
                ELSE Ret(I(IntOf(value).v))
           ELSE Ret(PriceOfText(Strip(StrOf(value))))

(***************************************************************************)
(* ISO-8601 timestamps: datetime.fromisoformat and pd.to_datetime.         *)
(***************************************************************************)
RECURSIVE AllDigits(_, _, _)
AllDigits(s, p, n) ==
    IF n = 0 THEN TRUE
    ELSE p <= Len(s) /\ IsDigit(s[p]) /\ AllDigits(s, p + 1, n - 1)

Num(s, p, n) == ToInt(SubSeq(s, p, p + n - 1))

IsLeap(y) == (y % 4 = 0 /\ y % 100 # 0) \/ y % 400 = 0

DaysInMonth(y, m) ==
    IF m = 2 THEN (IF IsLeap(y) THEN 29 ELSE 28)
    ELSE IF m \in {4, 6, 9, 11} THEN 30 ELSE 31

\* "YYYY-MM-DD" at the head of s, a date of the calendar
IsoDatePart(s) ==
    /\ Len(s) >= 10
    /\ AllDigits(s, 1, 4) /\ s[5] = "-" /\ AllDigits(s, 6, 2)
    /\ s[8] = "-" /\ AllDigits(s, 9, 2)
    /\ Num(s, 1, 4) >= 1
    /\ Num(s, 6, 2) \in 1..12
    /\ Num(s, 9, 2) \in 1..DaysInMonth(Num(s, 1, 4), Num(s, 6, 2))

\* HH[:MM[:SS[.fff[fff]]]]
TimeBodyOK(b) ==
    /\ Len(b) \in {2, 5, 8, 12, 15}
    /\ AllDigits(b, 1, 2) /\ Num(b, 1, 2) < 24
    /\ Len(b) >= 5 => (b[3] = ":" /\ AllDigits(b, 4, 2) /\ Num(b, 4, 2) < 60)
    /\ Len(b) >= 8 => (b[6] = ":" /\ AllDigits(b, 7, 2) /\ Num(b, 7, 2) < 60)
    /\ Len(b) >= 12 => (b[9] = "." /\ AllDigits(b, 10, Len(b) - 9))

\* an explicit offset [+-]HH:MM; allowZ: pandas also reads a trailing "Z"
ZoneOK(z, allowZ) ==
    \/ z = <<>>
    \/ allowZ /\ z = <<"Z">>
    \/ /\ Len(z) = 6
       /\ z[1] \in {"+", "-"}
       /\ AllDigits(z, 2, 2) /\ z[4] = ":" /\ AllDigits(z, 5, 2)
       /\ Num(z, 2, 2) < 24 /\ Num(z, 5, 2) < 60

\* where the zone of a time text starts (Len(t) + 1 without a zone)
ZoneStart(t) ==
    LET at == {i \in 1..Len(t) : t[i] \in {"+", "-", "Z"}}
    IN  IF at = {} THEN Len(t) + 1 ELSE Min(at)

TimeSplitOK(t, zone, allowZ) ==
    /\ TimeBodyOK(SubSeq(t, 1, zone - 1))
    /\ ZoneOK(SubSeq(t, zone, Len(t)), allowZ)

TimePartOK(t, allowZ) == TimeSplitOK(t, ZoneStart(t), allowZ)

\* the text is "YYYY-MM-DD", or that, one separator character and a time
IsoText(s, allowZ) ==
    /\ IsoDatePart(s)
    /\ Len(s) = 10 \/ TimePartOK(SubSeq(s, 12, Len(s)), allowZ)

\* dt_str.split('+')[0] after replace('Z', '+00:00'): the text before the
\* first "Z" or "+"
BeforeZone(s) ==
    LET at == {i \in 1..Len(s) : s[i] \in {"Z", "+"}}
    IN  IF at = {} THEN s ELSE SubSeq(s, 1, Min(at) - 1)

parse_snapshot_date(extracted_at, strict) ==
    CASE NaTest(extracted_at, strict) = "na" -> Ret(NULL)
      [] NaTest(extracted_at, strict) = "raise" -> Raise("ValueError")
      [] OTHER ->
           LET head == BeforeZone(StrOf(extracted_at))
           IN  IF IsoText(head, FALSE)
               THEN Ret(Date(Num(head, 1, 4), Num(head, 6, 2), Num(head, 9, 2)))
               ELSE Ret(NULL)

\* days since 1970-01-01 of a civil date
DaysFromCivil(y, m, d) ==
    LET yy == IF m <= 2 THEN y - 1 ELSE y
        era == yy \div 400
        yoe == yy - era * 400
        mp == IF m > 2 THEN m - 3 ELSE m + 9
        doy == (153 * mp + 2) \div 5 + d - 1
        doe == yoe * 365 + yoe \div 4 - yoe \div 100 + doy
    IN  era * 146097 + doe - 719468

NaT == [k |-> "nat"]
Instant(day, sec, us) == [k |-> "ts", day |-> day, sec |-> sec, us |-> us]

\* the UTC instant of a local day and second of day at `off` minutes east
ShiftToUTC(day, sec, us, off) ==
    LET total == (day * 1440) + (sec \div 60) - off
    IN  Instant(total \div 1440, ((total % 1440) * 60) + (sec % 60), us)

\* the UTC instant of the date of s, the time body b and the zone z
InstantOfParts(s, b, z) ==
    LET sec == IF Len(b) < 2 THEN 0
               ELSE Num(b, 1, 2) * 3600
                    + (IF Len(b) >= 5 THEN Num(b, 4, 2) * 60 ELSE 0)
                    + (IF Len(b) >= 8 THEN Num(b, 7, 2) ELSE 0)
        us == IF Len(b) = 12 THEN Num(b, 10, 3) * 1000
              ELSE IF Len(b) = 15 THEN Num(b, 10, 6) ELSE 0
        off == IF Len(z) = 6
               THEN (IF z[1] = "-" THEN -1 ELSE 1) * (Num(z, 2, 2) * 60 + Num(z, 5, 2))
               ELSE 0
    IN  ShiftToUTC(DaysFromCivil(Num(s, 1, 4), Num(s, 6, 2), Num(s, 9, 2)),
                   sec, us, off)

\* the time text t of s, split where its zone starts
InstantOfTime(s, t, zone) ==
    InstantOfParts(s, SubSeq(t, 1, zone - 1), SubSeq(t, zone, Len(t)))

InstantOfTail(s, t) == InstantOfTime(s, t, ZoneStart(t))

\* the UTC instant an ISO text denotes (a text without zone is taken as UTC)
InstantOfText(s) == InstantOfTail(s, SubSeq(s, 12, Len(s)))

\* pd.to_datetime(x, utc=True) of one element, errors='raise': NaT for a
\* missing value, the instant of an ISO-8601 text, an error for any other
\* text; a number counts nanoseconds from the epoch.
to_datetime_utc(x) ==
    CASE IsNA(x) -> Ret(NaT)
      [] x.k = "str" -> IF IsoText(x.s, TRUE) THEN Ret(InstantOfText(x.s))
                        ELSE Raise("DateParseError")
      [] x.k = "int" -> Ret(Instant(0, 0, x.n \div 1000))
      [] x.k = "float" -> Ret(Instant(0, 0, TruncTenths(x.t) \div 1000))
      [] OTHER -> Raise("TypeError")

\* a is an earlier instant than b
Earlier(a, b) ==
    \/ a.day < b.day
    \/ a.day = b.day /\ a.sec < b.sec
    \/ a.day = b.day /\ a.sec = b.sec /\ a.us < b.us

(***************************************************************************)
(* Column operations of transform_data.  A frame is a sequence of rows; a  *)
(* raw row is one JSON object, a key it lacks being ABSENT.                *)
(***************************************************************************)
OK == [k |-> "ok"]

\* pd.DataFrame(records) has a column for every key some record carries
HasColumn(df, key) == \E i \in DOMAIN df : df[i][key] # ABSENT

\* ... and holds NaN where a record lacks the key
Cell(rec, key) == IF rec[key] = ABSENT THEN NAN ELSE rec[key]

\* the first exception among the outcomes of consecutive steps, OK if none
FirstRaise(outcomes) ==
    IF \E i \in DOMAIN outcomes : outcomes[i].k = "raise"
    THEN outcomes[Min({i \in DOMAIN outcomes : outcomes[i].k = "raise"})]
    ELSE OK

\* df[key].apply(f): KeyError without the column, else the first exception
\* f raises on a cell
ApplyRaise(df, key, f(_)) ==
    IF ~HasColumn(df, key) THEN Raise("KeyError")
    ELSE FirstRaise([i \in DOMAIN df |-> f(Cell(df[i], key))])

\* the number a text denotes for pd.to_numeric: an optional sign, digits and
\* at most one point (texts with other numeric spellings - exponents, "inf",
\* padding - are outside the modelled alphabet); NaN for any other text
UnsignedOfText(s) ==
    LET dots == {i \in DOMAIN s : s[i] = "."}
    IN  IF s = <<>> \/ \E i \in DOMAIN s : ~IsDigit(s[i]) /\ s[i] # "."
        THEN NAN
        ELSE IF dots = {} THEN I(ToInt(s))
        ELSE IF Cardinality(dots) > 1 \/ Len(s) = 1 THEN NAN
        ELSE LET p == CHOOSE i \in dots : TRUE
                 whole == ToInt(SubSeq(s, 1, p - 1))
                 frac == SubSeq(s, p + 1, Len(s))
                 tenth == IF frac = <<>> THEN 0 ELSE DigitVal(frac[1])
             IN  Fl(whole * 10 + tenth)

NumericOfText(s) ==
    IF s # <<>> /\ s[1] = "-"
    THEN LET u == UnsignedOfText(Tail(s))
         IN  CASE u.k = "int" -> I(-u.n)
               [] u.k = "float" -> Fl(-u.t)
               [] OTHER -> NAN
    ELSE UnsignedOfText(s)

\* pd.to_numeric(cell, errors='coerce') of a scalar cell
to_numeric(v) ==
    CASE v.k \in {"int", "float", "inf"} -> v
      [] v.k = "bool" -> I(IF v.b THEN 1 ELSE 0)
      [] v.k = "str" -> NumericOfText(v.s)
      [] OTHER -> NAN

\* .astype('Int64') of one numeric cell: <NA> for NaN, the integer of an
\* integral number, TypeError for a number that is no integer
astype_Int64(v) ==
    CASE v.k = "int" -> Ret(v)
      [] v.k = "float" -> IF v.t % 10 = 0 THEN Ret(I(v.t \div 10))
                          ELSE Raise("TypeError")
      [] v.k = "inf" -> Raise("TypeError")
      [] OTHER -> Ret(NULL)

\* pd.to_numeric(df[key], errors='coerce').astype('Int64') of one cell
ToInt64(v) == astype_Int64(to_numeric(v))

\* pd.to_numeric(df['rating_average'], errors='coerce') of one cell (float64)
ToFloat(v) ==
    LET x == to_numeric(v)
    IN  IF x.k = "int" THEN Fl(x.n * 10) ELSE x

\* has_tiki_now(badges): every exception inside is swallowed into False
TikiNow == <<"t", "i", "k", "i", "_", "n", "o", "w">>

Contains(s, sub) ==
    \E i \in 1..(Len(s) - Len(sub) + 1) : SubSeq(s, i, i + Len(sub) - 1) = sub

has_tiki_now(badges, strict) ==
    IF NaTest(badges, strict) # "value" THEN FALSE
    ELSE CASE badges.k = "list" -> \E i \in DOMAIN badges.items : badges.items[i] = S(TikiNow)
           [] badges.k = "str" -> Contains(Lower(badges.s), TikiNow)
           [] OTHER -> FALSE

\* extract_url_key(url): group 1 of the leftmost match of /([^/]+)/c\d+
UrlKeyAt(s, i) ==
    LET later == {k \in (i + 1)..Len(s) : s[k] = "/"}
        k == IF later = {} THEN 0 ELSE Min(later)
    IN  IF s[i] = "/" /\ k > i + 1 /\ k + 2 <= Len(s) /\ s[k + 1] = "c" /\ IsDigit(s[k + 2])
        THEN SubSeq(s, i + 1, k - 1) ELSE <<>>

extract_url_key(url, strict) ==
    CASE NaTest(url, strict) = "raise" -> Raise("ValueError")
      [] NaTest(url, strict) = "na" -> Ret(NULL)
      [] OTHER ->
           LET s == StrOf(url)
               hits == {i \in DOMAIN s : UrlKeyAt(s, i) # <<>>}
           IN  IF hits = {} THEN Ret(NULL) ELSE Ret(S(UrlKeyAt(s, Min(hits))))

(***************************************************************************)
(* transform_data.  The modelled raw keys are product_id, seller_id,       *)
(* price, original_price, discount_rate, quantity_sold, rating,            *)
(* review_count, badges, _extracted_at, category_id, _category_url,        *)
(* category_name, category_path, root_category_id, category_depth and name *)
(* (name stands for the attributes copied through unchanged).              *)
(***************************************************************************)
ValueOf(outcome) == IF outcome.k = "ret" THEN outcome.v ELSE NULL

\* the pieces of a text between the separators
RECURSIVE SplitOn(_, _)
SplitOn(s, sep) ==
    LET at == {i \in DOMAIN s : s[i] = sep}
    IN  IF at = {} THEN <<s>>
        ELSE <<SubSeq(s, 1, Min(at) - 1)>> \o SplitOn(SubSeq(s, Min(at) + 1, Len(s)), sep)

\* int(x.strip()) of a segment can be taken: digits, with a minus sign or not
IsIntText(t) ==
    LET u == IF t # <<>> /\ t[1] = "-" THEN Tail(t) ELSE t
    IN  u # <<>> /\ \A i \in DOMAIN u : IsDigit(u[i])

IntOfText(t) == IF t[1] = "-" THEN -ToInt(Tail(t)) ELSE ToInt(t)

\* parse_category_path(path_str) (lines 476-487): the ids of the path, []
\* for a null, an empty value or any exception
parse_category_path(path_str) ==
    IF IsNA(path_str) \/ path_str.k = "list" \/ path_str \in {S(<<>>), I(0), B(FALSE)}
    THEN <<>>
    ELSE LET parts == SplitOn(StrOf(path_str), ">")
         IN  IF \A j \in DOMAIN parts : IsIntText(Strip(parts[j]))
             THEN [j \in DOMAIN parts |-> IntOfText(Strip(parts[j]))]
             ELSE <<>>

get_leaf_id(path_list) == IF path_list = <<>> THEN NULL ELSE I(path_list[Len(path_list)])
get_root_id(path_list) == IF path_list = <<>> THEN NULL ELSE I(path_list[1])
get_depth(path_list) == I(Len(path_list))

ParsedPath(df, i) == parse_category_path(Cell(df[i], "category_path"))

\* lines 507-521: the column after the path was applied to it, found being
\* the leaf or the root of the row's path: all of it from the path when the
\* frame has no such column or only nulls in it, else its nulls filled
FillFromPath(df, i, key, found) ==
    IF ~HasColumn(df, "category_path") THEN Cell(df[i], key)
    ELSE IF IsNA(Cell(df[i], key)) THEN found
    ELSE Cell(df[i], key)

LeafFilled(df, i) == FillFromPath(df, i, "category_id", get_leaf_id(ParsedPath(df, i)))
RootFilled(df, i) == FillFromPath(df, i, "root_category_id", get_root_id(ParsedPath(df, i)))

\* df['category_depth'] == 0 on one cell
IsZero(v) == v \in {I(0), Fl(0), B(FALSE)}

\* lines 523-529: all of the column from the path when the frame has no such
\* column or only zeros in it, else its zeros replaced from the path
DepthFromPath(df, i) ==
    IF ~HasColumn(df, "category_path") THEN Cell(df[i], "category_depth")
    ELSE IF \/ ~HasColumn(df, "category_depth")
            \/ \A j \in DOMAIN df : IsZero(Cell(df[j], "category_depth"))
            \/ IsZero(Cell(df[i], "category_depth"))
         THEN get_depth(ParsedPath(df, i))
         ELSE Cell(df[i], "category_depth")

\* lines 535-541: category_id is taken from the URL where it is missing
NeedsUrlFallback(df) ==
    \/ ~HasColumn(df, "category_id") /\ ~HasColumn(df, "category_path")
    \/ \E i \in DOMAIN df : IsNA(LeafFilled(df, i))

CategoryCell(df, i, strict) ==
    LET c == LeafFilled(df, i)
    IN  IF NeedsUrlFallback(df) /\ IsNA(c)
        THEN ValueOf(extract_category_id(Cell(df[i], "_category_url"), strict))
        ELSE c

\* step 2 (lines 446-576) for row i: the outcome of every column's
\* conversion on the row's cell
CellOutcomes(df, i, strict) ==
    LET r == df[i]
    IN  [snapshot_date |-> parse_snapshot_date(Cell(r, "_extracted_at"), strict),
         product_id |-> ToInt64(Cell(r, "product_id")),
         seller_id |-> ToInt64(Cell(r, "seller_id")),
         current_price |-> clean_price(Cell(r, "price"), strict),
         original_price |-> clean_price(Cell(r, "original_price"), strict),
         discount_rate |-> parse_discount_rate(Cell(r, "discount_rate"), strict),
         sales_volume_acc |-> parse_sales_volume(Cell(r, "quantity_sold"), strict),
         rating_average |-> Ret(ToFloat(Cell(r, "rating"))),
         review_count |-> ToInt64(Cell(r, "review_count")),
         url_category |-> extract_category_id(Cell(r, "_category_url"), strict),
         category_id |-> ToInt64(CategoryCell(df, i, strict)),
         root_category_id |-> ToInt64(RootFilled(df, i)),
         category_depth |-> ToInt64(DepthFromPath(df, i)),
         tiki_now |-> Ret(has_tiki_now(Cell(r, "badges"), strict)),
         extracted_at |-> to_datetime_utc(Cell(r, "_extracted_at"))]

\* the row of the working frame after step 2
ParsedRow(r, out) ==
    LET price == ValueOf(out.current_price)
    IN  [snapshot_date |-> ValueOf(out.snapshot_date),
         product_id |-> ValueOf(out.product_id),
         seller_id |-> ValueOf(out.seller_id),
         current_price |-> price,
         original_price |-> ValueOf(out.original_price),
         discount_rate |-> ValueOf(out.discount_rate),
         sales_volume_acc |-> ValueOf(out.sales_volume_acc),
         rating_average |-> ValueOf(out.rating_average),
         review_count |-> ValueOf(out.review_count),
         category_id |-> ValueOf(out.category_id),
         root_category_id |-> ValueOf(out.root_category_id),
         category_depth |-> ValueOf(out.category_depth),
         inventory_status |-> price # NULL /\ price.n > 0,
         tiki_now |-> ValueOf(out.tiki_now),
         extracted_at |-> ValueOf(out.extracted_at),
         name |-> Cell(r, "name"),
         category_name |-> Cell(r, "category_name"),
         category_url |-> Cell(r, "_category_url")]

\* df.sort_values('extracted_at', ascending=False): the order of the row
\* numbers in S; NaT rows come last in input order, tied instants in input
\* order when the sort is stable and reversed when it is not
RECURSIVE SortOrder(_, _, _)
SortOrder(rows, left, stable) ==
    IF left = {} THEN <<>>
    ELSE LET timed == {i \in left : rows[i].extracted_at.k = "ts"}
             top == {i \in timed : \A j \in timed :
                        ~Earlier(rows[i].extracted_at, rows[j].extracted_at)}
             pick == IF timed = {} THEN Min(left)
                     ELSE IF stable THEN Min(top) ELSE Max(top)
         IN  <<pick>> \o SortOrder(rows, left \ {pick}, stable)

\* the same rows with the oldest instant first
sort_oldest_first(rows, stable) ==
    LET order == SortOrder(rows, DOMAIN rows, stable)
    IN  [p \in DOMAIN rows |-> rows[order[Len(rows) + 1 - p]]]

sort_values(rows, stable) ==
    LET order == SortOrder(rows, DOMAIN rows, stable)
    IN  [p \in DOMAIN rows |-> rows[order[p]]]

\* rows whose key (a column of the frame) first occurs at their position
KeepFirst(rows, key) ==
    LET first(p) == \A q \in 1..(p - 1) : rows[q][key] # rows[p][key]
        kept == {p \in DOMAIN rows : first(p)}
        RECURSIVE Pick(_)
        Pick(p) == IF p > Len(rows) THEN <<>>
                   ELSE (IF p \in kept THEN <<rows[p]>> ELSE <<>>) \o Pick(p + 1)
    IN  Pick(1)

\* every row kept, duplicated product_id or not
keep_all_rows(rows) == rows

\* df.drop_duplicates(subset=['product_id'], keep='first')
drop_duplicates(rows) == KeepFirst(rows, "product_id")

\* df.dropna(subset=['product_id', 'current_price'])
HasCriticalFields(w) == w.product_id # NULL /\ w.current_price # NULL

dropna(rows) == SelectSeq(rows, HasCriticalFields)

\* lines 607-619 and 751-755: a row of the fact frame
FactRow(w) ==
    [snapshot_date |-> w.snapshot_date, product_id |-> w.product_id,
     current_price |-> w.current_price, original_price |-> w.original_price,
     discount_rate |-> w.discount_rate, sales_volume_acc |-> w.sales_volume_acc,
     review_count |-> w.review_count, rating_average |-> w.rating_average,
     inventory_status |-> w.inventory_status, tiki_now |-> w.tiki_now,
     extracted_at |-> w.extracted_at]

\* a product row stamped with the time of the call instead of the record's
stamped_with_now(w) ==
    [product_id |-> w.product_id, name |-> w.name, seller_id |-> w.seller_id,
     category_id |-> w.category_id, root_category_id |-> w.root_category_id,
     category_depth |-> w.category_depth,
     created_at |-> [k |-> "ts", day |-> 20472, sec |-> wall_clock, us |-> 0],
     updated_at |-> [k |-> "ts", day |-> 20472, sec |-> wall_clock, us |-> 0]]

\* lines 622-637 and 757-761: a row of the product dimension frame
DimRow(w) ==
    [product_id |-> w.product_id, name |-> w.name, seller_id |-> w.seller_id,
     category_id |-> w.category_id, root_category_id |-> w.root_category_id,
     category_depth |-> w.category_depth, created_at |-> w.extracted_at,
     updated_at |-> w.extracted_at]

\* lines 643-740: a row of the category dimension frame.  A frame without
\* the column root_category_id or category_depth has the value of a null
\* cell in every branch that reads it.
HasCategory(w) == w.category_id # NULL

\* lines 677-681
category_level(depth) == IF depth = NULL THEN I(1) ELSE I(Min({depth.n, 3}))

\* lines 683-695
full_path(id, root) ==
    IF root # NULL /\ root # id
    THEN S(IntToChars(root.n) \o <<" ", ">", " ">> \o IntToChars(id.n))
    ELSE S(IntToChars(id.n))

\* lines 697-704
parent_id(root, depth) ==
    IF depth # NULL /\ depth.n > 1 /\ root # NULL THEN root ELSE NULL

CatRow(w, strict) ==
    [category_id |-> w.category_id,
     category_name |-> IF IsNA(w.category_name) THEN NULL ELSE w.category_name,
     category_level |-> category_level(w.category_depth),
     full_path |-> full_path(w.category_id, w.root_category_id),
     url_key |-> ValueOf(extract_url_key(w.category_url, strict)),
     parent_id |-> parent_id(w.root_category_id, w.category_depth),
     standard_category |-> NULL]

\* a de-duplication on the seller instead of the category
one_category_per_seller(rows) == KeepFirst(SelectSeq(rows, HasCategory), "seller_id")

\* lines 643-660: the category rows are taken from the rows that survived
\* steps 4 and 5, one per category_id
CategoryRows(rows) == KeepFirst(SelectSeq(rows, HasCategory), "category_id")

\* a column conversion on the frame: KeyError without the raw column, else
\* the first exception among the outcomes of its cells
ColumnRaise(df, outs, key, column) ==
    IF ~HasColumn(df, key) THEN Raise("KeyError")
    ELSE FirstRaise([i \in DOMAIN outs |-> outs[i][column]])

\* the first exception of step 2 (lines 446-576) on df, OK if there is none
ParseRaise(df, outs) ==
    FirstRaise(<<
        ColumnRaise(df, outs, "_extracted_at", "snapshot_date"),
        ColumnRaise(df, outs, "product_id", "product_id"),
        ColumnRaise(df, outs, "seller_id", "seller_id"),
        ColumnRaise(df, outs, "price", "current_price"),
        ColumnRaise(df, outs, "original_price", "original_price"),
        ColumnRaise(df, outs, "discount_rate", "discount_rate"),
        ColumnRaise(df, outs, "quantity_sold", "sales_volume_acc"),
        ColumnRaise(df, outs, "rating", "rating_average"),
        ColumnRaise(df, outs, "review_count", "review_count"),
        IF NeedsUrlFallback(df) THEN ColumnRaise(df, outs, "_category_url", "url_category")
        ELSE OK,
        FirstRaise([i \in DOMAIN outs |-> outs[i].category_id]),
        FirstRaise([i \in DOMAIN outs |-> outs[i].root_category_id]),
        FirstRaise([i \in DOMAIN outs |-> outs[i].category_depth]),
        ColumnRaise(df, outs, "badges", "tiki_now"),
        ColumnRaise(df, outs, "_extracted_at", "extracted_at")
    >>)

\* the first exception of step 5 (lines 607-747): a column the split selects
\* is missing, or extract_url_key raises on a category row
SplitRaise(df, cats, strict) ==
    LET any(v) == OK
    IN  FirstRaise(<<
            ApplyRaise(df, "name", any),
            ApplyRaise(df, "category_name", any),
            ApplyRaise(df, "_category_url", any),
            FirstRaise([i \in DOMAIN cats |-> extract_url_key(cats[i].category_url, strict)])
        >>)

FactRows(valid) == [i \in DOMAIN valid |-> FactRow(valid[i])]
DimRows(valid) == [i \in DOMAIN valid |-> DimRow(valid[i])]
CatRows(cats, strict) == [i \in DOMAIN cats |-> CatRow(cats[i], strict)]

\* the null check before the de-duplication
nulls_dropped_first(df, outs, stable) ==
    drop_duplicates(sort_values(dropna(
        [i \in DOMAIN df |-> ParsedRow(df[i], outs[i])]), stable))

\* steps 3 and 4 on the parsed rows: sort, de-duplicate, drop nulls
ValidRows(df, outs, stable) ==
    dropna(drop_duplicates(sort_values(
        [i \in DOMAIN df |-> ParsedRow(df[i], outs[i])], stable)))

\* step 5 and the return, given the rows that passed step 4
Split(df, outs, valid, strict) ==
    LET failure == FirstRaise(<<ParseRaise(df, outs),
                               SplitRaise(df, CategoryRows(valid), strict)>>)
    IN  IF failure.k = "raise" THEN failure
        ELSE Ret([fact |-> FactRows(valid),
                  dim |-> DimRows(valid),
                  cat |-> CatRows(CategoryRows(valid), strict)])

Validate(df, outs, strict, stable) ==
    Split(df, outs, ValidRows(df, outs, stable), strict)

\* transform_data(df): the exception, or the three frames it returns
transform_data(df, strict, stable) ==
    Validate(df, [i \in DOMAIN df |-> CellOutcomes(df, i, strict)], strict, stable)

(***************************************************************************)
(* Raw batches.  A batch is what the crawler left under one date's prefix: *)
(* observations of two products at two instants, with or without a price,  *)
(* and records that lack a product_id, the price key or the timestamp.     *)
(***************************************************************************)
ObservedEarly == S(<<"2", "0", "2", "6", "-", "0", "1", "-", "1", "8", "T", "1", "6", ":", "4", "9", ":", "5", "5", ".", "8", "0", "5", "Z">>)
ObservedLate == S(<<"2", "0", "2", "6", "-", "0", "1", "-", "1", "9", "T", "0", "8", ":", "0", "0", ":", "0", "0", ".", "0", "0", "0", "Z">>)
PhoneUrl == S(<<"h", "t", "t", "p", "s", ":", "/", "/", "t", "i", "k", "i", ".", "v", "n", "/", "p", "h", "o", "n", "e", "/", "c", "1", "7", "8", "9">>)
TvUrl == S(<<"h", "t", "t", "p", "s", ":", "/", "/", "t", "i", "k", "i", ".", "v", "n", "/", "t", "v", "/", "c", "4", "2">>)

\* one observation of product pid at instant at; the fields besides the key
\* and the price differ between the early and the late observation
Observation(pid, at, price) ==
    [product_id |-> pid,
     seller_id |-> I(7),
     price |-> price,
     original_price |-> IF at = ObservedLate THEN S(<<"2", "5", "0">>) ELSE I(120),
     discount_rate |-> IF at = ObservedLate THEN S(<<"-", "2", "0", "%">>) ELSE I(17),
     quantity_sold |-> IF at = ObservedLate THEN I(41) ELSE S(<<"1", "k">>),
     rating |-> IF at = ObservedLate THEN I(4) ELSE Fl(45),
     review_count |-> IF at = ObservedLate THEN S(<<"1", "4">>) ELSE I(3),
     badges |-> IF at = ObservedLate THEN L(<<>>) ELSE L(<<S(TikiNow)>>),
     _extracted_at |-> at,
     category_id |-> IF pid = I(1) THEN I(1789) ELSE NULL,
     _category_url |-> IF pid = I(1) THEN PhoneUrl ELSE TvUrl,
     category_name |-> IF pid = I(1) THEN S(<<"P", "h", "o", "n", "e">>) ELSE NULL,
     category_path |-> ABSENT,
     root_category_id |-> ABSENT,
     category_depth |-> ABSENT,
     name |-> S(<<"p">>)]

PriceAt(at) == IF at = ObservedLate THEN S(<<"2", "0", "0">>) ELSE I(100)

\* the records of the de-duplication batches: one product seen early and
\* late and another seen early, each priced or without a price (null, or
\* no price key at all); a record without product_id and one without a
\* timestamp
DedupRecords ==
    {Observation(I(1), at, IF priced THEN PriceAt(at) ELSE NULL) :
        at \in {ObservedEarly, ObservedLate}, priced \in BOOLEAN}
    \cup {Observation(I(2), ObservedEarly, I(100)),
          [Observation(I(2), ObservedEarly, NULL) EXCEPT !.price = ABSENT],
          Observation(NULL, ObservedLate, I(300)),
          Observation(I(1), NULL, I(300))}

\* the records of the malformed-value batches: one well-formed record and
\* variants of a second one that hold a non-numeric text, a fractional
\* number or an unparseable timestamp
WellFormed == Observation(I(1), ObservedEarly, I(100))
Second == Observation(I(2), ObservedLate, I(200))
Junk == S(<<"x">>)

MalformedRecords ==
    {[Second EXCEPT !._extracted_at = S(<<"s", "o", "o", "n">>)],
     [Second EXCEPT !.product_id = Junk],
     [Second EXCEPT !.product_id = Fl(15)],
     [Second EXCEPT !.seller_id = Fl(15)],
     [Second EXCEPT !.review_count = Fl(15)],
     [Second EXCEPT !.price = Junk],
     [Second EXCEPT !.seller_id = Junk, !.review_count = Junk, !.rating = Junk,
                    !.original_price = Junk, !.discount_rate = Junk,
                    !.quantity_sold = Junk],
     [Second EXCEPT !.price = Fl(15), !.discount_rate = Fl(15),
                    !.quantity_sold = Fl(15), !.rating = Fl(15)]}

DegradeRecords == {WellFormed} \cup MalformedRecords

\* every list of at most MaxBatch records
Batches(records) == UNION {[1..m -> records] : m \in 0..MaxBatch}

\* the batch stored as n files of near-equal length
SplitFiles(batch, n) ==
    [f \in 1..n |-> SubSeq(batch, (((f - 1) * Len(batch)) \div n) + 1,
                                  (f * Len(batch)) \div n)]

FileCounts == 1..2

\* the raw zone of a date: no file at all, or the batch in one or two files
RawZones(records) ==
    {<<>>} \cup {SplitFiles(batch, n) : batch \in Batches(records), n \in FileCounts}

\* ... or in one file only
OneFileZones(records) ==
    {<<>>} \cup {SplitFiles(batch, 1) : batch \in Batches(records)}

(***************************************************************************)
(* run_transformation(execution_date), step by step.                       *)
(***************************************************************************)
NoError == [k |-> "none"]
NotCalled == [k |-> "none"]
NoFrame == <<>>
NoObject == [k |-> "missing"]
EmptyCleanZone == [fact |-> NoObject, dim |-> NoObject, cat |-> NoObject]
Stored(df) == [k |-> "parquet", rows |-> df]
Failure(e, at) == [k |-> "raise", e |-> e, at |-> at]

\* the three frames run_transformation holds once transform_data returned
fact_df == IF transformed.k = "ret" THEN transformed.v.fact ELSE NoFrame
dim_df == IF transformed.k = "ret" THEN transformed.v.dim ELSE NoFrame
cat_df == IF transformed.k = "ret" THEN transformed.v.cat ELSE NoFrame

\* all_records of load_raw_data: the records of the files, in file order
RECURSIVE AllRecords(_)
AllRecords(files) ==
    IF files = <<>> THEN <<>> ELSE Head(files) \o AllRecords(Tail(files))

NoCsv == [k |-> "none"]
NoTable == [k |-> "none"]
NoRow == [k |-> "none"]

TrendsIdle == trends_csv = NoCsv /\ trends_out = NotCalled

LoadIdle ==
    /\ clean_cat = NoObject
    /\ dim_categories = <<>>
    /\ temp_table = NoTable
    /\ load_pc = "off"
    /\ loads = 0

NoXcom == [fx_data |-> NULL, parquet_path |-> NULL]

FxIdle ==
    /\ dim_exchange_rate = NoTable
    /\ fx_task = "off"
    /\ fx_try = 0
    /\ ds = NULL
    /\ xcom = NoXcom
    /\ fx_runs = 0

TrendsDagIdle ==
    /\ staging = NoTable
    /\ fact_google_trends = <<>>
    /\ fact_before = <<>>
    /\ trends_task = "off"
    /\ trends_runs = 0

FactLoadIdle ==
    /\ fact_zone = <<>>
    /\ fact_daily_snapshot = <<>>
    /\ snapshot_before = <<>>
    /\ fact_load = NotCalled
    /\ fact_partitioning = "column"
    /\ fact_steps = 0

DimLoadIdle ==
    /\ dim_zone = <<>>
    /\ dim_products = <<>>
    /\ products_before = <<>>
    /\ dim_load = NotCalled
    /\ dim_steps = 0

\* transform_data is not called a second time
RerunIdle == rerun = NotCalled /\ wall_clock = 0

\* fetch_batch_with_retry is not called
FetchIdle ==
    /\ cache_file = NoObject
    /\ cache_found = NoObject
    /\ responses = <<>>
    /\ waited = <<>>
    /\ fetch_out = NotCalled

WarehouseIdle ==
    FxIdle /\ TrendsDagIdle /\ FactLoadIdle /\ DimLoadIdle /\ RerunIdle /\ FetchIdle

TransformIdle ==
    /\ raw_zone = <<>>
    /\ pc = "off"
    /\ raw_df = NoFrame
    /\ transformed = NotCalled
    /\ error = NoError
    /\ clean_zone = EmptyCleanZone

InitRun(zones) ==
    /\ raw_zone \in zones
    /\ pc = "load"
    /\ raw_df = NoFrame
    /\ transformed = NotCalled
    /\ error = NoError
    /\ clean_zone = EmptyCleanZone
    /\ np_strict \in BOOLEAN
    /\ sort_stable \in BOOLEAN

\* load_raw_data finds no .json blob under the prefix (lines 389-393)
LoadRawDataNoFiles ==
    /\ pc = "load"
    /\ raw_zone = <<>>
    /\ pc' = "failed"
    /\ error' = Failure("ValueError", "load_raw_data")
    /\ UNCHANGED <<raw_zone, raw_df, transformed, clean_zone, pvars, bvars, gvars, lvars, wvars>>

\* load_raw_data returns the frame of the records of all files
LoadRawData ==
    /\ pc = "load"
    /\ raw_zone # <<>>
    /\ raw_df' = AllRecords(raw_zone)
    /\ pc' = "transform"
    /\ UNCHANGED <<raw_zone, transformed, error, clean_zone, pvars, bvars, gvars, lvars, wvars>>

\* transform_data(raw_df) raises, which ends the run, or returns the frames
TransformData ==
    /\ pc = "transform"
    /\ transformed' = transform_data(raw_df, np_strict, sort_stable)
    /\ \/ /\ transformed'.k = "raise"
          /\ pc' = "failed"
          /\ error' = Failure(transformed'.e, "transform_data")
       \/ /\ transformed'.k = "ret"
          /\ pc' = "check"
          /\ UNCHANGED error
    /\ UNCHANGED <<raw_zone, raw_df, clean_zone, pvars, bvars, gvars, lvars, wvars>>

\* lines 857-858: an empty fact frame is fatal
EmptyFactRaises ==
    /\ pc = "check"
    /\ fact_df = <<>>
    /\ pc' = "failed"
    /\ error' = Failure("ValueError", "run_transformation")
    /\ UNCHANGED <<raw_zone, raw_df, transformed, clean_zone, pvars, bvars, gvars, lvars, wvars>>

\* the fact file written without the test of lines 857-858
SaveFactUnchecked ==
    /\ pc = "check"
    /\ clean_zone' = [clean_zone EXCEPT !.fact = Stored(fact_df)]
    /\ pc' = "save_dim"
    /\ UNCHANGED <<raw_zone, raw_df, transformed, error, pvars, bvars, gvars, lvars, wvars>>

\* save_to_clean_zone writes the fact, the dimension and the category file
SaveFact ==
    /\ pc = "check"
    /\ fact_df # <<>>
    /\ clean_zone' = [clean_zone EXCEPT !.fact = Stored(fact_df)]
    /\ pc' = "save_dim"
    /\ UNCHANGED <<raw_zone, raw_df, transformed, error, pvars, bvars, gvars, lvars, wvars>>

SaveDim ==
    /\ pc = "save_dim"
    /\ clean_zone' = [clean_zone EXCEPT !.dim = Stored(dim_df)]
    /\ pc' = "save_cat"
    /\ UNCHANGED <<raw_zone, raw_df, transformed, error, pvars, bvars, gvars, lvars, wvars>>

SaveCat ==
    /\ pc = "save_cat"
    /\ clean_zone' = [clean_zone EXCEPT !.cat = Stored(cat_df)]
    /\ pc' = "done"
    /\ UNCHANGED <<raw_zone, raw_df, transformed, error, pvars, bvars, gvars, lvars, wvars>>

NextRun ==
    \/ LoadRawDataNoFiles
    \/ LoadRawData
    \/ TransformData
    \/ EmptyFactRaises
    \/ SaveFact
    \/ SaveDim
    \/ SaveCat

(***************************************************************************)
(* Calls of the value parsers on every kind of raw value.                  *)
(***************************************************************************)
ParserChars == {"1", "4", ".", ",", "k", " ", "x", "/", "c"}

TextsUpTo(n) == UNION {[1..m -> ParserChars] : m \in 0..n}

ListItems == {NULL, I(5), S(<<"1", "k">>)}

ListsUpTo(n) == UNION {[1..m -> ListItems] : m \in 0..n}

\* two ISO-8601 texts ("2026-01-18" and "2026-01-18T16Z"); their digits stay
\* within the integers of the model when a numeric parser reads them
IsoDay == <<"2", "0", "2", "6", "-", "0", "1", "-", "1", "8">>
IsoHour == IsoDay \o <<"T", "1", "6", "Z">>

ParserInputs ==
    {NULL, NAN, INF, NEGINF, B(TRUE), B(FALSE), I(-25), I(0), I(41),
     Fl(-15), Fl(305), S(IsoDay), S(IsoHour)}
    \cup {S(s) : s \in TextsUpTo(MaxStrLen)}
    \cup {L(items) : items \in ListsUpTo(MaxListLen)}

NoCall == [k |-> "none"]

ParserIdle == arg = NULL /\ called = "off" /\ ret = NoCall

InitParsers ==
    /\ arg \in ParserInputs
    /\ called = "none"
    /\ ret = NoCall
    /\ np_strict \in BOOLEAN
    /\ sort_stable = TRUE
    /\ TransformIdle
    /\ TrendsIdle
    /\ LoadIdle
    /\ WarehouseIdle

CallParseSalesVolume ==
    /\ called = "none"
    /\ called' = "parse_sales_volume"
    /\ ret' = parse_sales_volume(arg, np_strict)
    /\ UNCHANGED <<arg, tvars, bvars, gvars, lvars, wvars>>

CallParseDiscountRate ==
    /\ called = "none"
    /\ called' = "parse_discount_rate"
    /\ ret' = parse_discount_rate(arg, np_strict)
    /\ UNCHANGED <<arg, tvars, bvars, gvars, lvars, wvars>>

CallExtractCategoryId ==
    /\ called = "none"
    /\ called' = "extract_category_id"
    /\ ret' = extract_category_id(arg, np_strict)
    /\ UNCHANGED <<arg, tvars, bvars, gvars, lvars, wvars>>

CallCleanPrice ==
    /\ called = "none"
    /\ called' = "clean_price"
    /\ ret' = clean_price(arg, np_strict)
    /\ UNCHANGED <<arg, tvars, bvars, gvars, lvars, wvars>>

CallParseSnapshotDate ==
    /\ called = "none"
    /\ called' = "parse_snapshot_date"
    /\ ret' = parse_snapshot_date(arg, np_strict)
    /\ UNCHANGED <<arg, tvars, bvars, gvars, lvars, wvars>>

NextParsers ==
    \/ CallParseSalesVolume
    \/ CallParseDiscountRate
    \/ CallExtractCategoryId
    \/ CallCleanPrice
    \/ CallParseSnapshotDate

SpecParsers == InitParsers /\ [][NextParsers]_vars

\* runs over the de-duplication batches
InitDedup ==
    InitRun(RawZones(DedupRecords)) /\ ParserIdle /\ TrendsIdle /\ LoadIdle
    /\ WarehouseIdle

SpecDedup == InitDedup /\ [][NextRun]_vars

\* the records of the null-check batches: one product seen early and late,
\* each time priced or with a null price, and another product
LatestRecords ==
    {Observation(I(1), at, IF priced THEN PriceAt(at) ELSE NULL) :
        at \in {ObservedEarly, ObservedLate}, priced \in BOOLEAN}
    \cup {Observation(I(2), ObservedEarly, I(100))}

\* runs over the null-check batches
InitLatest ==
    InitRun(OneFileZones(LatestRecords)) /\ ParserIdle /\ TrendsIdle /\ LoadIdle
    /\ WarehouseIdle

SpecLatest == InitLatest /\ [][NextRun]_vars

\* runs over the malformed-value batches
InitDegrade ==
    InitRun(OneFileZones(DegradeRecords)) /\ ParserIdle /\ TrendsIdle /\ LoadIdle
    /\ WarehouseIdle

SpecDegrade == InitDegrade /\ [][NextRun]_vars

(***************************************************************************)
(* transform_trends_data(raw_file_path) of transform_google_trends.py.     *)
(* The raw file is the wide CSV fetch_trends_data wrote: one row per       *)
(* (batch, date), one column per keyword, blank where the row's batch did  *)
(* not ask for the keyword, and an isPartial column.                       *)
(***************************************************************************)
MaxTrendRows == 2   \* most rows of one raw trends CSV

Alphabet ==
    <<"a", "b", "c", "d", "e", "f", "g", "h", "i", "j", "k", "l", "m",
      "n", "o", "p", "q", "r", "s", "t", "u", "v", "w", "x", "y", "z">>

CharRank(c) == CHOOSE i \in DOMAIN Alphabet : Alphabet[i] = c

\* a < b for two lower-case texts
RECURSIVE TextBefore(_, _)
TextBefore(a, b) ==
    IF b = <<>> THEN FALSE
    ELSE IF a = <<>> THEN TRUE
    ELSE IF a[1] = b[1] THEN TextBefore(Tail(a), Tail(b))
    ELSE CharRank(a[1]) < CharRank(b[1])

Blank == <<>>
LessThanOne == <<"<", "1">>

\* pd.read_csv of the cells of one keyword column: int64 when every cell is
\* an integer, float64 when every cell is blank or a number, else object
\* (blank cells NaN, the others their text)
read_csv_column(cells) ==
    LET number(i) == NumericOfText(cells[i])
    IN  IF \E i \in DOMAIN cells : cells[i] # Blank /\ number(i) = NAN
        THEN [i \in DOMAIN cells |->
                 IF cells[i] = Blank THEN NAN ELSE S(cells[i])]
        ELSE IF \A i \in DOMAIN cells : number(i).k = "int"
        THEN [i \in DOMAIN cells |-> number(i)]
        ELSE [i \in DOMAIN cells |->
                 CASE number(i).k = "int" -> Fl(number(i).n * 10)
                   [] OTHER -> number(i)]

\* the frame of line 29: the keyword columns read, isPartial as read or, when
\* the file has no such column, False on every row (lines 48-57)
read_csv(csv) ==
    [header |-> csv.header,
     date |-> [i \in DOMAIN csv.rows |-> csv.rows[i].date],
     isPartial |-> [i \in DOMAIN csv.rows |->
                       IF csv.partial_col THEN csv.rows[i].isPartial
                       ELSE B(FALSE)],
     columns |-> [c \in DOMAIN csv.header |->
                     read_csv_column([i \in DOMAIN csv.rows |->
                                         csv.rows[i].cells[c]])]]

\* df.melt (lines 68-76): keyword column after keyword column, the rows of
\* the frame in order
melt(df) ==
    LET n == Len(df.date)
    IN  [j \in 1..(Len(df.header) * n) |->
            LET c == ((j - 1) \div n) + 1
                i == ((j - 1) % n) + 1
            IN  [date |-> df.date[i],
                 is_partial |-> df.isPartial[i],
                 keyword |-> df.header[c],
                 score |-> df.columns[c][i]]]

\* the melted score column has dtype object (line 86)
ScoreIsObject(long) == \E j \in DOMAIN long : long[j].score.k = "str"

\* lines 95-98 on one cell of an object column
clean_text_score(v) ==
    to_numeric(IF v = S(LessThanOne) THEN S(<<"0">>) ELSE v)

\* lines 101-104
fillna_zero(v) == IF IsNA(v) THEN I(0) ELSE v

\* .astype('int64') of a number (line 107): a float is truncated
astype_int64(v) ==
    CASE v.k = "int" -> v.n
      [] v.k = "float" -> IF v.t >= 0 THEN v.t \div 10 ELSE -((-v.t) \div 10)

\* lines 86-107 on one cell of the melted score column
score_of(v, object) ==
    astype_int64(fillna_zero(IF object THEN clean_text_score(v) ELSE v))

\* .astype(bool) (line 108)
astype_bool(v) ==
    CASE v.k = "bool" -> v.b
      [] v.k = "int" -> v.n # 0
      [] OTHER -> TRUE

\* pd.to_datetime(text).dt.date (line 111)
ValidDay(text) == Len(text) = 10 /\ IsoDatePart(text)

date_of(text) == Date(Num(text, 1, 4), Num(text, 6, 2), Num(text, 9, 2))

DayNumber(d) == DaysFromCivil(d.y, d.m, d.d)

\* lines 86-125
clean_long(long, now) ==
    [j \in DOMAIN long |->
        [date |-> date_of(long[j].date),
         keyword |-> long[j].keyword,
         score |-> score_of(long[j].score, ScoreIsObject(long)),
         is_partial |-> astype_bool(long[j].is_partial),
         inserted_at |-> now]]

\* the group keys of groupby(['date', 'keyword']), sorted
KeyOf(r) == [date |-> r.date, keyword |-> r.keyword]

KeyBefore(a, b) ==
    \/ DayNumber(a.date) < DayNumber(b.date)
    \/ a.date = b.date /\ TextBefore(a.keyword, b.keyword)

RECURSIVE SortedKeys(_)
SortedKeys(keys) ==
    IF keys = {} THEN <<>>
    ELSE LET first == CHOOSE k \in keys :
                          \A o \in keys \ {k} : KeyBefore(k, o)
         IN  <<first>> \o SortedKeys(keys \ {first})

agg_min(values) == Min(values)

\* the 'max' of .agg (lines 142-146)
agg_max(values) == Max(values)

\* max of a boolean column: True when any member is True
agg_any(flags) == TRUE \in flags

LaterInstant(a, b) == IF Earlier(a, b) THEN b ELSE a

agg_latest(instants) ==
    CHOOSE x \in instants : \A y \in instants : LaterInstant(x, y) = x

\* groupby(['date', 'keyword'], as_index=False).agg(...) (lines 142-146) and
\* the column selection of lines 160-161
groupby_agg(rows) ==
    LET keys == SortedKeys({KeyOf(rows[j]) : j \in DOMAIN rows})
        members(k) == {j \in DOMAIN rows : KeyOf(rows[j]) = k}
    IN  [g \in DOMAIN keys |->
            [date |-> keys[g].date,
             keyword |-> keys[g].keyword,
             score |-> agg_max({rows[j].score : j \in members(keys[g])}),
             is_partial |->
                 agg_any({rows[j].is_partial : j \in members(keys[g])}),
             inserted_at |->
                 agg_latest({rows[j].inserted_at : j \in members(keys[g])})]]

\* the rows of the parquet file transform_trends_data writes
transform_trends_data(csv, now) ==
    IF \E i \in DOMAIN csv.rows : ~ValidDay(csv.rows[i].date)
    THEN Raise("ValueError")
    ELSE Ret(groupby_agg(clean_long(melt(read_csv(csv)), now)))

\* ---- raw trends files ----------------------------------------------------
NextDay == <<"2", "0", "2", "6", "-", "0", "1", "-", "1", "9">>
TrendDays == {IsoDay, NextDay}

Tiki == <<"t", "i", "k", "i">>
Iphone == <<"i", "p", "h", "o", "n", "e">>
TrendHeader == <<Tiki, Iphone>>

\* what a keyword cell of the file holds: nothing, "<1", an integer, a float
TikiCells == {Blank, LessThanOne, <<"5">>, <<"8", ".", "0">>}
IphoneCells == {Blank, <<"3">>}

TrendRows(marks) ==
    {[date |-> d, isPartial |-> m, cells |-> <<a, b>>] :
        d \in TrendDays, m \in marks, a \in TikiCells, b \in IphoneCells}

TrendFiles(partial_col, marks) ==
    {[header |-> TrendHeader, partial_col |-> partial_col, rows |-> rows] :
        rows \in UNION {[1..n -> TrendRows(marks)] : n \in 1..MaxTrendRows}}

\* the raw files: with an isPartial column holding the marks, or without
TrendCsvs(marks) ==
    TrendFiles(TRUE, marks) \cup TrendFiles(FALSE, {ABSENT})

\* readings of pd.Timestamp.now(tz='UTC').floor('us') (line 125)
TrendClock ==
    {Instant(DaysFromCivil(2026, 1, 19), 0, 0),
     Instant(DaysFromCivil(2026, 1, 19), 3600, 5)}

InitTrends ==
    /\ trends_csv \in TrendCsvs({B(TRUE), B(FALSE)})
    /\ trends_out = NotCalled
    /\ np_strict = TRUE
    /\ sort_stable = TRUE
    /\ ParserIdle
    /\ TransformIdle
    /\ LoadIdle
    /\ WarehouseIdle

TransformTrendsData ==
    /\ trends_csv # NoCsv
    /\ trends_out = NotCalled
    /\ \E now \in TrendClock :
           trends_out' = transform_trends_data(trends_csv, now)
    /\ UNCHANGED <<trends_csv, pvars, tvars, bvars, lvars, wvars>>

NextTrends == TransformTrendsData

SpecTrends == InitTrends /\ [][NextTrends]_vars

(***************************************************************************)
(* load_categories_table(execution_date) of load_to_bq.py: the parquet of  *)
(* the date is loaded into a temporary table, merged into dim_categories   *)
(* and the temporary table is dropped.                                     *)
(***************************************************************************)
MaxLoads == 2       \* most calls of load_categories_table in one behaviour

\* the category ids of the two category URLs of the raw batches
PhoneId == ValueOf(extract_category_id(PhoneUrl, FALSE)).n
TvId == ValueOf(extract_category_id(TvUrl, FALSE)).n
CategoryIds == {PhoneId, TvId}

CategoryNames == {NULL, S(<<"P", "h", "o", "n", "e">>), S(<<"M", "o", "b", "i">>)}
StandardCategories == {NULL, S(<<"T", "e", "c", "h">>), S(<<"H", "o", "m", "e">>)}

\* a row of the clean-zone parquet as transform_data builds it when the
\* batch has no category_path (lines 643-740), with any name and any
\* standard_category the parquet may hold
CategoryRow(id, name, standard) ==
    [category_id |-> I(id),
     category_name |-> name,
     category_level |-> I(1),
     full_path |-> S(IntToChars(id)),
     url_key |-> IF id = PhoneId THEN S(<<"p", "h", "o", "n", "e">>) ELSE NULL,
     parent_id |-> NULL,
     standard_category |-> standard]

\* a dim_categories row before any load: names typed in by hand, the crawler
\* columns not yet filled
ManualRow(id, name, standard) ==
    [CategoryRow(id, name, standard) EXCEPT !.full_path = NULL, !.url_key = NULL]

RowsOfId(id) ==
    {CategoryRow(id, n, s) : n \in CategoryNames, s \in StandardCategories}

\* the parquet objects of one date: each category_id at most once (line 660)
CategoryParquets ==
    {Stored(<<>>)}
    \cup {Stored(<<r>>) : r \in RowsOfId(PhoneId) \cup RowsOfId(TvId)}
    \cup {Stored(<<p, v>>) : p \in RowsOfId(PhoneId), v \in RowsOfId(TvId)}

ManualRowsOfId(id) ==
    {ManualRow(id, n, s) : n \in CategoryNames, s \in StandardCategories}

\* the target table before the first load
CategoryTables ==
    {[id \in CategoryIds |-> IF id = PhoneId THEN p ELSE v] :
        p \in {NoRow} \cup ManualRowsOfId(PhoneId),
        v \in {NoRow} \cup ManualRowsOfId(TvId)}

\* the row of table S with the category_id, NoRow if there is none
SourceRow(source, id) ==
    IF \E j \in DOMAIN source : source[j].category_id = I(id)
    THEN source[CHOOSE j \in DOMAIN source : source[j].category_id = I(id)]
    ELSE NoRow

incoming_value(stored, incoming) == incoming

\* SQL COALESCE(T.x, S.x) (lines 400 and 406)
COALESCE(stored, incoming) == IF stored # NULL THEN stored ELSE incoming

\* WHEN MATCHED THEN UPDATE SET ... (lines 397-406)
matched_update(t, s) ==
    [category_id |-> t.category_id,
     category_name |-> COALESCE(t.category_name, s.category_name),
     category_level |-> s.category_level,
     full_path |-> s.full_path,
     url_key |-> s.url_key,
     parent_id |-> s.parent_id,
     standard_category |-> COALESCE(t.standard_category, s.standard_category)]

\* the MERGE statement (lines 392-415)
merge_query(target, source) ==
    [id \in CategoryIds |->
        LET s == SourceRow(source, id)
        IN  IF s = NoRow THEN target[id]
            ELSE IF target[id] # NoRow THEN matched_update(target[id], s)
            ELSE s]

InitLoad ==
    /\ clean_cat = NoObject
    /\ dim_categories \in CategoryTables
    /\ temp_table = NoTable
    /\ load_pc = "idle"
    /\ loads = 0
    /\ np_strict = TRUE
    /\ sort_stable = TRUE
    /\ ParserIdle
    /\ TransformIdle
    /\ TrendsIdle
    /\ WarehouseIdle

\* validate_gcs_path_has_files finds no parquet under the date (lines 126-131)
LoadNoParquet ==
    /\ load_pc \in {"idle", "returned", "raised"}
    /\ loads < MaxLoads
    /\ loads' = loads + 1
    /\ clean_cat' = NoObject
    /\ load_pc' = "raised"
    /\ UNCHANGED <<dim_categories, temp_table, pvars, tvars, bvars, gvars, wvars>>

\* step 1: the parquet of the date replaces the temporary table (lines 361-387)
LoadTempTable ==
    /\ load_pc \in {"idle", "returned", "raised"}
    /\ loads < MaxLoads
    /\ loads' = loads + 1
    /\ \E parquet \in CategoryParquets :
           /\ clean_cat' = parquet
           /\ temp_table' = parquet.rows
    /\ load_pc' = "merge"
    /\ UNCHANGED <<dim_categories, pvars, tvars, bvars, gvars, wvars>>

\* step 2: the MERGE job (lines 390-418)
MergeIntoTarget ==
    /\ load_pc = "merge"
    /\ dim_categories' = merge_query(dim_categories, temp_table)
    /\ load_pc' = "cleanup"
    /\ UNCHANGED <<clean_cat, temp_table, loads, pvars, tvars, bvars, gvars, wvars>>

\* step 3: the temporary table is dropped and the call returns (lines 422-440)
CleanupTempTable ==
    /\ load_pc = "cleanup"
    /\ temp_table' = NoTable
    /\ load_pc' = "returned"
    /\ UNCHANGED <<clean_cat, dim_categories, loads, pvars, tvars, bvars, gvars, wvars>>

NextLoad ==
    \/ LoadNoParquet
    \/ LoadTempTable
    \/ MergeIntoTarget
    \/ CleanupTempTable

SpecLoad == InitLoad /\ [][NextLoad]_vars

(***************************************************************************)
(* The columns of the frames of transform_data.  sku, brand_name,          *)
(* image_url, product_url, seller_name and seller_logo are copied through  *)
(* like name and are columns of the frame when name is.                    *)
(***************************************************************************)
FACT_SCHEMA ==
    <<"snapshot_date", "product_id", "current_price", "original_price",
      "discount_rate", "sales_volume_acc", "review_count", "rating_average",
      "inventory_status", "tiki_now", "extracted_at">>

DIM_PRODUCTS_SCHEMA ==
    <<"product_id", "sku", "name", "brand_name", "image_url", "product_url",
      "seller_id", "seller_name", "seller_logo", "category_id",
      "root_category_id", "category_depth", "created_at", "updated_at">>

DIM_CATEGORIES_SCHEMA ==
    <<"category_id", "category_name", "category_level", "full_path", "url_key",
      "parent_id", "standard_category">>

SeqToSet(q) == {q[i] : i \in DOMAIN q}

\* the columns of df when step 5 begins: the raw keys under their new names
\* (lines 431-440) and the columns step 2 assigns (lines 447-576)
WorkingColumns(df) ==
    {"snapshot_date", "current_price", "sales_volume_acc", "category_id",
     "inventory_status", "tiki_now"}
    \cup (IF HasColumn(df, "_extracted_at") THEN {"extracted_at"} ELSE {})
    \cup (IF HasColumn(df, "quantity_sold") THEN {"sales_volume"} ELSE {})
    \cup (IF HasColumn(df, "rating") THEN {"rating_average"} ELSE {})
    \cup (IF HasColumn(df, "name")
          THEN {"name", "sku", "brand_name", "image_url", "product_url",
                "seller_name", "seller_logo"}
          ELSE {})
    \cup {key \in {"product_id", "seller_id", "price", "original_price",
                   "discount_rate", "review_count", "badges", "_category_url",
                   "category_name", "category_path", "root_category_id",
                   "category_depth"} : HasColumn(df, key)}
    \cup (IF HasColumn(df, "category_path")
          THEN {"root_category_id", "category_depth"} ELSE {})

\* frame[wanted]: the wanted columns in the wanted order, KeyError when the
\* frame lacks one of them
select_columns(columns, wanted) ==
    IF \A i \in DOMAIN wanted : wanted[i] \in columns
    THEN Ret(wanted) ELSE Raise("KeyError")

\* lines 751-761 and 717-727: the columns the frame lacks are added, then
\* the columns of the schema are selected
enforce_schema(columns, schema) ==
    select_columns(SeqToSet(columns \o SelectSeq(schema, LAMBDA c : c \notin SeqToSet(columns))),
                   schema)

\* the optional columns a list takes when the frame has them
IfPresent(df, keys) == SelectSeq(keys, LAMBDA c : c \in WorkingColumns(df))

\* lines 607-619 and 751-755
fact_columns(df) ==
    LET picked == select_columns(WorkingColumns(df), FACT_SCHEMA)
    IN  IF picked.k = "raise" THEN picked ELSE enforce_schema(picked.v, FACT_SCHEMA)

\* lines 622-637 and 757-761
dim_columns(df) ==
    LET picked == select_columns(WorkingColumns(df),
                      <<"product_id", "sku", "name", "brand_name", "image_url",
                        "product_url", "seller_id", "seller_name", "seller_logo",
                        "category_id", "category_name">>
                      \o IfPresent(df, <<"root_category_id", "category_depth">>))
    IN  IF picked.k = "raise" THEN picked
        ELSE enforce_schema(picked.v \o <<"created_at", "updated_at">>, DIM_PRODUCTS_SCHEMA)

\* lines 643-727
cat_columns(df) ==
    LET picked == select_columns(WorkingColumns(df),
                      <<"category_id", "_category_url">>
                      \o IfPresent(df, <<"category_name", "root_category_id",
                                         "category_depth">>))
        built == picked.v
                 \o <<"url_key">>
                 \o (IF "category_name" \in SeqToSet(picked.v) THEN <<>>
                     ELSE <<"category_name">>)
                 \o <<"category_level", "full_path", "parent_id", "standard_category">>
        kept == SelectSeq(built, LAMBDA c :
                    c \notin {"_category_url", "root_category_id", "category_depth"})
    IN  IF picked.k = "raise" THEN picked ELSE enforce_schema(kept, DIM_CATEGORIES_SCHEMA)

\* the columns of the three frames transform_data returns, or the KeyError
output_columns(df) ==
    LET failure == FirstRaise(<<fact_columns(df), dim_columns(df), cat_columns(df)>>)
    IN  IF failure.k = "raise" THEN failure
        ELSE Ret([fact |-> fact_columns(df).v, dim |-> dim_columns(df).v,
                  cat |-> cat_columns(df).v])

(***************************************************************************)
(* Runs over batches whose records carry some, all or none of the optional *)
(* category keys: category_id, category_path, root_category_id,            *)
(* category_depth and category_name.                                       *)
(***************************************************************************)
PathOfTwo == S(<<"8", " ", ">", " ", "9">>)
Named == S(<<"T", "v">>)

\* category_id, category_path, root_category_id, category_depth and
\* category_name of a record
CategoryProfiles ==
    {<<I(5), ABSENT, ABSENT, ABSENT, Named>>,
     <<ABSENT, ABSENT, ABSENT, ABSENT, ABSENT>>,
     <<I(9), PathOfTwo, I(8), I(2), Named>>,
     <<ABSENT, PathOfTwo, ABSENT, ABSENT, Named>>,
     <<I(5), ABSENT, NULL, I(0), Named>>,
     <<NULL, PathOfTwo, NULL, NULL, Named>>,
     <<I(5), PathOfTwo, I(6), I(0), NULL>>,
     <<I(9), ABSENT, I(6), I(4), Named>>}

Categorised(pid, at, price, profile) ==
    [Observation(pid, at, price) EXCEPT
        !.category_id = profile[1], !.category_path = profile[2],
        !.root_category_id = profile[3], !.category_depth = profile[4],
        !.category_name = profile[5]]

\* two products, each observed early or late under one of the profiles, and
\* an observation without a price
CategoryRecords ==
    {Categorised(I(p), at, PriceAt(at), profile) :
        p \in {1, 2}, at \in {ObservedEarly, ObservedLate}, profile \in CategoryProfiles}
    \cup {Categorised(I(2), ObservedEarly, NULL, <<I(5), ABSENT, ABSENT, ABSENT, Named>>)}

MaxCategoryBatch == 2

CategoryZones ==
    {<<>>} \cup {<<batch>> :
                    batch \in UNION {[1..n -> CategoryRecords] : n \in 1..MaxCategoryBatch}}

InitCategories ==
    /\ InitRun(CategoryZones)
    /\ ParserIdle
    /\ TrendsIdle
    /\ LoadIdle
    /\ WarehouseIdle

SpecCategories == InitCategories /\ [][NextRun]_vars

(***************************************************************************)
(* The DAG tiki_exchange_rate_ingest of dags/fx_rate_dag.py.  A run is the *)
(* task instances fetch_fx_rate, transform_fx_data, delete_existing_data   *)
(* and load_to_bigquery in that order; a task instance that fails is run   *)
(* again until its retries are used up, the tasks before it are not.  The  *)
(* parquet file of a run is kept with the path that names it.              *)
(***************************************************************************)
MaxFxRuns == 2

retries == 2

FALLBACK_RATE == 25400

FxDates == {"2026-02-01", "2026-02-02"}

\* float(rates['VND']) of a well-formed response: a usable rate, or not
ApiRates == {FALLBACK_RATE + 50, 0}

\* the outcomes of fetch_exchange_rate(): the API's rate, or the fallback
fetch_exchange_rate ==
    {[rate |-> r, source |-> "open.er-api.com"] : r \in ApiRates}
        \cup {[rate |-> FALLBACK_RATE, source |-> "Fallback"]}

\* the one-row frame transform_fx_rate writes for the logical date
transform_fx_rate(rate, logical_date, source) ==
    <<[date |-> logical_date, from_currency |-> "USD", to_currency |-> "VND",
       rate |-> rate, source |-> source]>>

\* a validation that accepts every frame
validate_nothing(df) == Ret(TRUE)

\* lines 121-154: the rate of the one row is positive, else ValueError
validate_parquet(df) == IF df[1].rate <= 0 THEN Raise("ValueError") ELSE Ret(TRUE)

TableOf(rows) == [k |-> "table", rows |-> rows]

\* DELETE FROM dim_exchange_rate WHERE date = '<logical_date>'
delete_existing_data(table, logical_date) ==
    IF table = NoTable
    THEN table
    ELSE TableOf(SelectSeq(table.rows, LAMBDA r : r.date # logical_date))

\* df.to_gbq(..., if_exists='append')
to_gbq_append(table, df) ==
    IF table = NoTable THEN TableOf(df) ELSE TableOf(table.rows \o df)

FxTasks ==
    <<"fetch_fx_rate", "transform_fx_data", "delete_existing_data", "load_to_bigquery">>

FxRunning == \E i \in DOMAIN FxTasks : fx_task = FxTasks[i]

InitFx ==
    /\ dim_exchange_rate = NoTable
    /\ fx_task = "none"
    /\ fx_try = 0
    /\ ds = NULL
    /\ xcom = NoXcom
    /\ fx_runs = 0
    /\ np_strict = TRUE
    /\ sort_stable = TRUE
    /\ ParserIdle
    /\ TransformIdle
    /\ TrendsIdle
    /\ LoadIdle
    /\ TrendsDagIdle
    /\ FactLoadIdle
    /\ DimLoadIdle
    /\ RerunIdle
    /\ FetchIdle

\* the scheduler, or a manual trigger, starts a run for a logical date
TriggerFxRun ==
    /\ fx_task \in {"none", "success", "failed"}
    /\ fx_runs < MaxFxRuns
    /\ ds' \in FxDates
    /\ fx_task' = "fetch_fx_rate"
    /\ fx_try' = 0
    /\ xcom' = NoXcom
    /\ fx_runs' = fx_runs + 1
    /\ UNCHANGED <<dim_exchange_rate, pvars, tvars, bvars, gvars, lvars, svars, fvars, dvars, rvars, cvars>>

\* the failed task instance is up for retry, or the run has failed
FailTask ==
    IF fx_try < retries
    THEN fx_try' = fx_try + 1 /\ fx_task' = fx_task
    ELSE fx_try' = fx_try /\ fx_task' = "failed"

\* a task instance ends before it changed anything: the query or the load
\* job is refused, or execution_timeout expires
TaskRaises ==
    /\ FxRunning
    /\ FailTask
    /\ UNCHANGED <<dim_exchange_rate, ds, xcom, fx_runs, pvars, tvars, bvars, gvars, lvars, svars, fvars, dvars, rvars, cvars>>

FetchFxRate ==
    /\ fx_task = "fetch_fx_rate"
    /\ \E fx_data \in fetch_exchange_rate : xcom' = [xcom EXCEPT !.fx_data = fx_data]
    /\ fx_task' = "transform_fx_data"
    /\ fx_try' = 0
    /\ UNCHANGED <<dim_exchange_rate, ds, fx_runs, pvars, tvars, bvars, gvars, lvars, svars, fvars, dvars, rvars, cvars>>

TransformFxData ==
    /\ fx_task = "transform_fx_data"
    /\ LET df == transform_fx_rate(xcom.fx_data.rate, ds, xcom.fx_data.source)
       IN  IF validate_parquet(df) = Ret(TRUE)
           THEN /\ xcom' = [xcom EXCEPT !.parquet_path = df]
                /\ fx_task' = "delete_existing_data"
                /\ fx_try' = 0
           ELSE FailTask /\ UNCHANGED xcom
    /\ UNCHANGED <<dim_exchange_rate, ds, fx_runs, pvars, tvars, bvars, gvars, lvars, svars, fvars, dvars, rvars, cvars>>

DeleteExistingFxData ==
    /\ fx_task = "delete_existing_data"
    /\ dim_exchange_rate' = delete_existing_data(dim_exchange_rate, ds)
    /\ fx_task' = "load_to_bigquery"
    /\ fx_try' = 0
    /\ UNCHANGED <<ds, xcom, fx_runs, pvars, tvars, bvars, gvars, lvars, svars, fvars, dvars, rvars, cvars>>

LoadFxToBigquery ==
    /\ fx_task = "load_to_bigquery"
    /\ dim_exchange_rate' = to_gbq_append(dim_exchange_rate, xcom.parquet_path)
    /\ fx_task' = "success"
    /\ fx_try' = 0
    /\ UNCHANGED <<ds, xcom, fx_runs, pvars, tvars, bvars, gvars, lvars, svars, fvars, dvars, rvars, cvars>>

\* the load job has appended the frame and the task instance still fails:
\* execution_timeout expires before the callable returns
LoadFxFailsAfterAppend ==
    /\ fx_task = "load_to_bigquery"
    /\ dim_exchange_rate' = to_gbq_append(dim_exchange_rate, xcom.parquet_path)
    /\ FailTask
    /\ UNCHANGED <<ds, xcom, fx_runs, pvars, tvars, bvars, gvars, lvars, svars, fvars, dvars, rvars, cvars>>

NextFx ==
    \/ TriggerFxRun
    \/ TaskRaises
    \/ FetchFxRate
    \/ TransformFxData
    \/ DeleteExistingFxData
    \/ LoadFxToBigquery
    \/ LoadFxFailsAfterAppend

SpecFx == InitFx /\ [][NextFx]_vars

(***************************************************************************)
(* The DAG tiki_google_trends_analytics of dags/trends_dag.py, from the    *)
(* raw CSV fetch_trends_data left to the merge into fact_google_trends.    *)
(* The parquet file of the run is uploaded under the run's date and the    *)
(* staging load reads that object.                                         *)
(***************************************************************************)
MaxTrendRuns == 2

\* the raw file of a run: one row per date
OneRowFiles(partial_col, marks) ==
    {[header |-> TrendHeader, partial_col |-> partial_col, rows |-> <<r>>] :
        r \in TrendRows(marks)}

DagCsvs == OneRowFiles(TRUE, {B(TRUE), B(FALSE)}) \cup OneRowFiles(FALSE, {ABSENT})

\* pd.Timestamp.now(tz='UTC') as the transform of the n-th run reads it
RunClock(n) == Instant(DaysFromCivil(2026, 1, 19), 3600 * n, 0)

\* the rows of source that the ON clause joins to the target row
Joined(t, source) == {j \in DOMAIN source : KeyOf(source[j]) = KeyOf(t)}

\* WHEN MATCHED THEN UPDATE SET score, is_partial, inserted_at
update_keep_greatest(t, s) ==
    [t EXCEPT !.score = Max({t.score, s.score}),
              !.is_partial = s.is_partial,
              !.inserted_at = s.inserted_at]

update_set(t, s) ==
    [t EXCEPT !.score = s.score,
              !.is_partial = s.is_partial,
              !.inserted_at = s.inserted_at]

\* WHEN NOT MATCHED THEN INSERT: the source rows no target row joins
not_matched(target, source) ==
    SelectSeq(source, LAMBDA s : \A i \in DOMAIN target : KeyOf(target[i]) # KeyOf(s))

\* the MERGE statement; it fails when two source rows join one target row
trends_merge_query(target, source) ==
    IF \E i \in DOMAIN target : Cardinality(Joined(target[i], source)) > 1
    THEN Raise("BadRequest")
    ELSE Ret([i \in DOMAIN target |->
                 IF Joined(target[i], source) = {}
                 THEN target[i]
                 ELSE update_set(target[i],
                                 source[CHOOSE j \in Joined(target[i], source) : TRUE])]
             \o not_matched(target, source))

InitTrendsDag ==
    /\ staging = NoTable
    /\ fact_google_trends = <<>>
    /\ fact_before = <<>>
    /\ trends_task = "none"
    /\ trends_runs = 0
    /\ np_strict = TRUE
    /\ sort_stable = TRUE
    /\ ParserIdle
    /\ TransformIdle
    /\ TrendsIdle
    /\ LoadIdle
    /\ FxIdle
    /\ FactLoadIdle
    /\ DimLoadIdle
    /\ RerunIdle
    /\ FetchIdle

\* a run starts; get_keywords and fetch_trends_data leave the raw CSV
FetchTrendsData ==
    /\ trends_task \in {"none", "success", "failed"}
    /\ trends_runs < MaxTrendRuns
    /\ trends_csv' \in DagCsvs
    /\ trends_out' = NotCalled
    /\ trends_task' = "transform_trends_data"
    /\ trends_runs' = trends_runs + 1
    /\ UNCHANGED <<staging, fact_google_trends, fact_before, pvars, tvars, bvars, lvars, xvars, fvars, dvars, rvars, cvars>>

\* the task transform_trends_data; its parquet file is then uploaded
\* (prepare_gcs_upload, upload_to_gcs)
TransformTrendsTask ==
    /\ trends_task = "transform_trends_data"
    /\ trends_out' = transform_trends_data(trends_csv, RunClock(trends_runs))
    /\ trends_task' = IF trends_out'.k = "ret" THEN "load_to_staging" ELSE "failed"
    /\ UNCHANGED <<trends_csv, staging, fact_google_trends, fact_before, trends_runs,
                   pvars, tvars, bvars, lvars, xvars, fvars, dvars, rvars, cvars>>

\* load_to_staging: WRITE_TRUNCATE replaces the rows of the staging table
LoadToStaging ==
    /\ trends_task = "load_to_staging"
    /\ staging' = TableOf(trends_out.v)
    /\ trends_task' = "merge_to_fact"
    /\ UNCHANGED <<fact_google_trends, fact_before, trends_runs, gvars,
                   pvars, tvars, bvars, lvars, xvars, fvars, dvars, rvars, cvars>>

MergeToFact ==
    /\ trends_task = "merge_to_fact"
    /\ LET merged == trends_merge_query(fact_google_trends, staging.rows)
       IN  IF merged.k = "ret"
           THEN /\ fact_google_trends' = merged.v
                /\ fact_before' = fact_google_trends
                /\ trends_task' = "success"
           ELSE /\ trends_task' = "failed"
                /\ UNCHANGED <<fact_google_trends, fact_before>>
    /\ UNCHANGED <<staging, trends_runs, gvars, pvars, tvars, bvars, lvars, xvars, fvars, dvars, rvars, cvars>>

NextTrendsDag ==
    \/ FetchTrendsData
    \/ TransformTrendsTask
    \/ LoadToStaging
    \/ MergeToFact

SpecTrendsDag == InitTrendsDag /\ [][NextTrendsDag]_vars

(***************************************************************************)
(* load_fact_table(execution_date) of load_to_bq.py, after transform runs  *)
(* that wrote the fact batch of a date to the clean zone.  A row of the    *)
(* table is kept with the partition that stores it.  Whether the table is  *)
(* partitioned by the column snapshot_date or by load time is decided      *)
(* where the table is created, which is not in the repository: both are    *)
(* possible.                                                               *)
(***************************************************************************)
MaxFactSteps == 3

\* execution dates, as the --date argument gives them
ExecutionDates == {IsoDay, NextDay}

\* datetime.strptime(execution_date, '%Y-%m-%d').date()
strptime_date(text) == Date(Num(text, 1, 4), Num(text, 6, 2), Num(text, 9, 2))

\* the raw records of a date: two products, observed on the date or the day after
LoadRecords ==
    {Observation(I(p), at, PriceAt(at)) : p \in {1, 2}, at \in {ObservedEarly, ObservedLate}}

MaxLoadBatch == 2

LoadBatches == UNION {[1..n -> LoadRecords] : n \in 1..MaxLoadBatch}

\* the fact frames transform_data returns for them
FactBatches == {transform_data(df, TRUE, TRUE).v.fact : df \in LoadBatches}

NoFactZone == [d \in ExecutionDates |-> NoObject]

Partitioned(rows, partition) == [i \in DOMAIN rows |-> [partition |-> partition, row |-> rows[i]]]

\* a load job with WRITE_TRUNCATE into table$YYYYMMDD: the rows of the
\* partition are replaced by the rows of the files
write_truncate(table, partition, rows) ==
    SelectSeq(table, LAMBDA t : t.partition # partition) \o Partitioned(rows, partition)

\* some row of the files belongs to another partition than the decorator's
OutsidePartition(rows, partition) ==
    \E i \in DOMAIN rows : rows[i].snapshot_date # partition

InitFactLoad ==
    /\ fact_zone = NoFactZone
    /\ fact_daily_snapshot = <<>>
    /\ snapshot_before = <<>>
    /\ fact_load = NotCalled
    /\ fact_partitioning \in {"column", "ingestion"}
    /\ fact_steps = 0
    /\ np_strict = TRUE
    /\ sort_stable = TRUE
    /\ ParserIdle
    /\ TransformIdle
    /\ TrendsIdle
    /\ LoadIdle
    /\ FxIdle
    /\ TrendsDagIdle
    /\ DimLoadIdle
    /\ RerunIdle
    /\ FetchIdle

\* save_to_clean_zone writes the fact frame of a transform run under
\* snapshot_date=<execution_date>/part-001.parquet
SaveFactToCleanZone ==
    /\ fact_steps < MaxFactSteps
    /\ \E execution_date \in ExecutionDates, df \in FactBatches :
           fact_zone' = [fact_zone EXCEPT ![execution_date] = Stored(df)]
    /\ fact_load' = NotCalled
    /\ fact_steps' = fact_steps + 1
    /\ UNCHANGED <<fact_daily_snapshot, snapshot_before, fact_partitioning,
                   pvars, tvars, bvars, gvars, lvars, xvars, svars, dvars, rvars, cvars>>

\* validate_gcs_path_has_files finds no parquet under the date
LoadFactNoParquet ==
    /\ fact_steps < MaxFactSteps
    /\ \E execution_date \in ExecutionDates :
           /\ fact_zone[execution_date] = NoObject
           /\ fact_load' = Raise("FileNotFoundError")
    /\ fact_steps' = fact_steps + 1
    /\ UNCHANGED <<fact_zone, fact_daily_snapshot, snapshot_before, fact_partitioning,
                   pvars, tvars, bvars, gvars, lvars, xvars, svars, dvars, rvars, cvars>>

\* the load job fails: the table is partitioned by snapshot_date and a row
\* of the files has another date than the partition decorator
LoadFactRejected ==
    /\ fact_steps < MaxFactSteps
    /\ fact_partitioning = "column"
    /\ \E execution_date \in ExecutionDates :
           /\ fact_zone[execution_date] # NoObject
           /\ OutsidePartition(fact_zone[execution_date].rows, strptime_date(execution_date))
           /\ fact_load' = Raise("BadRequest")
    /\ fact_steps' = fact_steps + 1
    /\ UNCHANGED <<fact_zone, fact_daily_snapshot, snapshot_before, fact_partitioning,
                   pvars, tvars, bvars, gvars, lvars, xvars, svars, dvars, rvars, cvars>>

LoadFactTable ==
    /\ fact_steps < MaxFactSteps
    /\ \E execution_date \in ExecutionDates :
           /\ fact_zone[execution_date] # NoObject
           /\ fact_partitioning = "column" =>
                  ~OutsidePartition(fact_zone[execution_date].rows,
                                    strptime_date(execution_date))
           /\ fact_daily_snapshot' =
                  write_truncate(fact_daily_snapshot, strptime_date(execution_date),
                                 fact_zone[execution_date].rows)
           /\ fact_load' = Ret(execution_date)
    /\ snapshot_before' = fact_daily_snapshot
    /\ fact_steps' = fact_steps + 1
    /\ UNCHANGED <<fact_zone, fact_partitioning,
                   pvars, tvars, bvars, gvars, lvars, xvars, svars, dvars, rvars, cvars>>

NextFactLoad ==
    \/ SaveFactToCleanZone
    \/ LoadFactNoParquet
    \/ LoadFactRejected
    \/ LoadFactTable

SpecFactLoad == InitFactLoad /\ [][NextFactLoad]_vars

(***************************************************************************)
(* load_dimension_table(execution_date) of load_to_bq.py, after transform  *)
(* runs that wrote the product dimension of a date to the clean zone.  Of  *)
(* the columns the MERGE names, the model keeps product_id, name,          *)
(* seller_id, category_id, created_at and updated_at.                      *)
(***************************************************************************)
MaxDimSteps == 4

\* a batch of one product observed with its category path
PathBatch ==
    <<Categorised(I(2), ObservedLate, PriceAt(ObservedLate),
                  <<I(9), PathOfTwo, I(8), I(2), Named>>)>>

\* the product frames transform_data returns for the raw batches and for
\* the batch with a category path
DimBatches ==
    {transform_data(df, TRUE, TRUE).v.dim : df \in LoadBatches \cup {PathBatch}}

NoDimZone == [d \in ExecutionDates |-> NoObject]

\* the rows of S that the ON clause joins to the row of T
JoinedProducts(t, source) == {j \in DOMAIN source : source[j].product_id = t.product_id}

\* WHEN MATCHED THEN UPDATE SET ...
overwrite_all(t, s) ==
    [t EXCEPT !.name = s.name, !.seller_id = s.seller_id,
              !.category_id = s.category_id, !.created_at = s.created_at,
              !.updated_at = s.updated_at]

products_update_set(t, s) ==
    [t EXCEPT !.name = s.name, !.seller_id = s.seller_id,
              !.category_id = s.category_id, !.updated_at = s.updated_at]

\* WHEN NOT MATCHED THEN INSERT (...) VALUES (...)
\* (a column of dim_products that the INSERT does not list is NULL)
products_insert(s) ==
    [product_id |-> s.product_id, name |-> s.name, seller_id |-> s.seller_id,
     category_id |-> s.category_id, root_category_id |-> NULL,
     category_depth |-> NULL, created_at |-> s.created_at,
     updated_at |-> s.updated_at]

\* the rows of S that no row of T joins
products_not_matched(target, source) ==
    SelectSeq(source, LAMBDA s : \A i \in DOMAIN target : target[i].product_id # s.product_id)

\* the MERGE statement; it fails when two rows of S join one row of T
products_merge_query(target, source) ==
    IF \E i \in DOMAIN target : Cardinality(JoinedProducts(target[i], source)) > 1
    THEN Raise("BadRequest")
    ELSE Ret([i \in DOMAIN target |->
                 IF JoinedProducts(target[i], source) = {}
                 THEN target[i]
                 ELSE products_update_set(target[i],
                          source[CHOOSE j \in JoinedProducts(target[i], source) : TRUE])]
             \o [k \in DOMAIN products_not_matched(target, source) |->
                   products_insert(products_not_matched(target, source)[k])])

InitDimLoad ==
    /\ dim_zone = NoDimZone
    /\ dim_products = <<>>
    /\ products_before = <<>>
    /\ dim_load = NotCalled
    /\ dim_steps = 0
    /\ np_strict = TRUE
    /\ sort_stable = TRUE
    /\ ParserIdle
    /\ TransformIdle
    /\ TrendsIdle
    /\ LoadIdle
    /\ FxIdle
    /\ TrendsDagIdle
    /\ FactLoadIdle
    /\ RerunIdle
    /\ FetchIdle

\* save_to_clean_zone writes the product dimension of a transform run under
\* snapshot_date=<execution_date>/part-001.parquet
SaveDimToCleanZone ==
    /\ dim_steps < MaxDimSteps
    /\ \E execution_date \in ExecutionDates, df \in DimBatches :
           dim_zone' = [dim_zone EXCEPT ![execution_date] = Stored(df)]
    /\ dim_load' = NotCalled
    /\ dim_steps' = dim_steps + 1
    /\ UNCHANGED <<dim_products, products_before,
                   pvars, tvars, bvars, gvars, lvars, xvars, svars, fvars, rvars, cvars>>

\* validate_gcs_path_has_files finds no parquet under the date
LoadDimensionNoParquet ==
    /\ dim_steps < MaxDimSteps
    /\ \E execution_date \in ExecutionDates :
           /\ dim_zone[execution_date] = NoObject
           /\ dim_load' = Raise("FileNotFoundError")
    /\ dim_steps' = dim_steps + 1
    /\ UNCHANGED <<dim_zone, dim_products, products_before,
                   pvars, tvars, bvars, gvars, lvars, xvars, svars, fvars, rvars, cvars>>

\* the temp table is loaded from the files, merged into dim_products and
\* deleted
LoadDimensionTable ==
    /\ dim_steps < MaxDimSteps
    /\ \E execution_date \in ExecutionDates :
           /\ dim_zone[execution_date] # NoObject
           /\ LET merged == products_merge_query(dim_products,
                                                 dim_zone[execution_date].rows)
              IN  IF merged.k = "ret"
                  THEN /\ dim_products' = merged.v
                       /\ dim_load' = Ret(execution_date)
                  ELSE /\ dim_products' = dim_products
                       /\ dim_load' = merged
    /\ products_before' = dim_products
    /\ dim_steps' = dim_steps + 1
    /\ UNCHANGED <<dim_zone, pvars, tvars, bvars, gvars, lvars, xvars, svars, fvars, rvars, cvars>>

NextDimLoad ==
    \/ SaveDimToCleanZone
    \/ LoadDimensionNoParquet
    \/ LoadDimensionTable

SpecDimLoad == InitDimLoad /\ [][NextDimLoad]_vars

(***************************************************************************)
(* Calls of has_tiki_now on the badges values a raw record can hold: no    *)
(* value, a list of tags, or the tags in one text.                         *)
(***************************************************************************)
MaxBadges == 2

TikiNowTitle == <<"T", "i", "k", "i", "_", "N", "o", "w">>

BadgeTags == {TikiNow, TikiNowTitle, <<"n", "e", "w">>, <<"t", "i", "k", "i">>}

BadgeLists == UNION {[1..m -> {S(t) : t \in BadgeTags}] : m \in 0..MaxBadges}

BadgeTexts ==
    BadgeTags \cup {<<"n", "e", "w">> \o <<",">> \o t : t \in BadgeTags}

BadgeInputs ==
    {NULL, NAN} \cup {L(items) : items \in BadgeLists} \cup {S(t) : t \in BadgeTexts}

InitBadges ==
    /\ arg \in BadgeInputs
    /\ called = "none"
    /\ ret = NoCall
    /\ np_strict \in BOOLEAN
    /\ sort_stable = TRUE
    /\ TransformIdle
    /\ TrendsIdle
    /\ LoadIdle
    /\ WarehouseIdle

\* line 572: df['badges'].apply(has_tiki_now), one cell
CallHasTikiNow ==
    /\ called = "none"
    /\ called' = "has_tiki_now"
    /\ ret' = Ret(has_tiki_now(arg, np_strict))
    /\ UNCHANGED <<arg, tvars, bvars, gvars, lvars, wvars>>

NextBadges == CallHasTikiNow

SpecBadges == InitBadges /\ [][NextBadges]_vars

(***************************************************************************)
(* transform_data called a second time on the frame load_raw_data          *)
(* returned, on the same build, some time after the first call.            *)
(***************************************************************************)
MaxRerunBatch == 2
MaxClock == 2

\* one product seen early (priced, and without price at the same instant),
\* seen late, another product, and a product with a category path
RerunRecords ==
    {Observation(I(1), ObservedEarly, I(100)),
     Observation(I(1), ObservedEarly, NULL),
     Observation(I(1), ObservedLate, PriceAt(ObservedLate)),
     Observation(I(2), ObservedEarly, I(100)),
     Categorised(I(2), ObservedLate, I(200), <<NULL, PathOfTwo, NULL, I(0), Named>>)}

RerunZones ==
    {<<>>} \cup {<<batch>> :
                    batch \in UNION {[1..n -> RerunRecords] : n \in 1..MaxRerunBatch}}

InitRerun ==
    /\ InitRun(RerunZones)
    /\ ParserIdle
    /\ TrendsIdle
    /\ LoadIdle
    /\ WarehouseIdle

\* time passes between the two calls
Tick ==
    /\ transformed # NotCalled
    /\ rerun = NotCalled
    /\ wall_clock < MaxClock
    /\ wall_clock' = wall_clock + 1
    /\ UNCHANGED <<rerun, pvars, tvars, bvars, gvars, lvars, xvars, svars, fvars, dvars, cvars>>

\* transform_data(raw_df) once more: line 423 copies the frame, so the first
\* call left raw_df as it was
TransformDataAgain ==
    /\ transformed # NotCalled
    /\ rerun = NotCalled
    /\ rerun' = transform_data(raw_df, np_strict, sort_stable)
    /\ UNCHANGED <<wall_clock, pvars, tvars, bvars, gvars, lvars, xvars, svars, fvars, dvars, cvars>>

NextRerun ==
    \/ NextRun
    \/ Tick
    \/ TransformDataAgain

SpecRerun == InitRerun /\ [][NextRerun]_vars

(***************************************************************************)
(* Calls of parse_sales_volume on sales texts: an optional label, a number *)
(* with or without a fraction or thousands groups, and a suffix.           *)
(***************************************************************************)
SalesLabels == {<<>>, <<"d", "a", " ", "b", "a", "n", " ">>}
SalesWholes == {<<"2">>, <<"4">>, <<"1", "0">>}
SalesFractions ==
    {<<>>, <<".", "0", "1">>, <<",", "5">>, <<".", "1">>, <<".", "0", "0", "0">>,
     <<".", "0", "0", "0", ".", "0", "0", "0">>, <<",", "0", "0", "0">>}
SalesGaps == {<<>>, <<" ">>}
SalesSuffixes == {<<>>, <<"k">>, <<"K">>, <<"t", "r">>, <<"m">>, <<"x">>}

SalesTexts ==
    {l \o w \o f \o g \o x :
        l \in SalesLabels, w \in SalesWholes, f \in SalesFractions,
        g \in SalesGaps, x \in SalesSuffixes}
    \cup SalesLabels

InitSales ==
    /\ arg \in {S(t) : t \in SalesTexts}
    /\ called = "none"
    /\ ret = NoCall
    /\ np_strict \in BOOLEAN
    /\ sort_stable = TRUE
    /\ TransformIdle
    /\ TrendsIdle
    /\ LoadIdle
    /\ WarehouseIdle

NextSales == CallParseSalesVolume

SpecSales == InitSales /\ [][NextSales]_vars

(***************************************************************************)
(* Calls of clean_price on prices: no value, numbers, and texts made of a  *)
(* sign or currency mark, digits, groups and a tail.                       *)
(***************************************************************************)
PriceMarks == {<<>>, <<"$">>, <<" ">>, <<"-">>}
PriceWholes == {<<"1">>, <<"1", "2">>, <<"1", "2", "3", "4">>}
PriceGroups ==
    {<<>>, <<".", "0", "0", "0">>, <<".", "0", "0", "0", ".", "5", "0", "0">>,
     <<",", "0", "0", "0">>, <<".", "5">>, <<".", "0", "0">>,
     <<".", "0", "0", "0", ".", "5">>}
PriceTails ==
    {<<>>, <<" ", "V", "N", "D">>, <<"v", "n", "d">>, <<"U+0111">>, <<" ", "U+20AB", " ">>,
     <<" ", "x">>, <<".">>}

PriceTexts ==
    {m \o w \o g \o t : m \in PriceMarks, w \in PriceWholes, g \in PriceGroups,
                        t \in PriceTails}
    \cup {<<>>, <<"N", "/", "A">>, <<".">>, <<"-">>, <<" ">>}

PriceInputs ==
    {NULL, NAN, B(TRUE), I(-25), I(0), I(3520000), Fl(-15), Fl(305)}
    \cup {S(t) : t \in PriceTexts}

InitPrices ==
    /\ arg \in PriceInputs
    /\ called = "none"
    /\ ret = NoCall
    /\ np_strict \in BOOLEAN
    /\ sort_stable = TRUE
    /\ TransformIdle
    /\ TrendsIdle
    /\ LoadIdle
    /\ WarehouseIdle

NextPrices == CallCleanPrice

SpecPrices == InitPrices /\ [][NextPrices]_vars

(***************************************************************************)
(* transform_data called on the records of the batch in another order, on  *)
(* the same build.                                                         *)
(***************************************************************************)
MaxReorderBatch == 2

\* the records of the second call of transform_data, a product seen late
\* under the category of another with a different root and depth, and a
\* second record of that product at the same instant
ReorderRecords ==
    RerunRecords
    \cup {Categorised(I(1), ObservedLate, PriceAt(ObservedLate), <<I(9), ABSENT, I(6), I(4), Named>>)}

ReorderZones ==
    {<<>>} \cup {<<batch>> :
                    batch \in UNION {[1..n -> ReorderRecords] : n \in 1..MaxReorderBatch}}

OrdersOf(n) == {f \in [1..n -> 1..n] : \A i, j \in 1..n : f[i] = f[j] => i = j}

Reordered(df, perm) == [i \in DOMAIN df |-> df[perm[i]]]

InitReorder ==
    /\ InitRun(ReorderZones)
    /\ ParserIdle
    /\ TrendsIdle
    /\ LoadIdle
    /\ WarehouseIdle

\* transform_data on the same records in a different order
TransformReordered ==
    /\ transformed # NotCalled
    /\ rerun = NotCalled
    /\ \E perm \in OrdersOf(Len(raw_df)) :
           /\ Reordered(raw_df, perm) # raw_df
           /\ rerun' = transform_data(Reordered(raw_df, perm), np_strict, sort_stable)
    /\ UNCHANGED <<wall_clock, pvars, tvars, bvars, gvars, lvars, xvars, svars, fvars, dvars, cvars>>

NextReorder ==
    \/ NextRun
    \/ TransformReordered

SpecReorder == InitReorder /\ [][NextReorder]_vars

(***************************************************************************)
(* Runs of run_transformation in which an upload to the clean zone can     *)
(* fail: blob.upload_from_file raises, the exception leaves                *)
(* save_to_clean_zone and run_transformation re-raises it.                 *)
(***************************************************************************)
InitSave ==
    /\ InitRun(RerunZones)
    /\ ParserIdle
    /\ TrendsIdle
    /\ LoadIdle
    /\ WarehouseIdle

\* lines 821-827 and 145-185: write_parquet_to_gcs of the fact, the
\* dimension or the category frame raises; lines 882-886 log and re-raise
WriteParquetFails ==
    /\ \/ pc = "check" /\ fact_df # <<>>
       \/ pc \in {"save_dim", "save_cat"}
    /\ pc' = "failed"
    /\ error' = Failure("GoogleCloudError", "write_parquet_to_gcs")
    /\ UNCHANGED <<raw_zone, raw_df, transformed, clean_zone, pvars, bvars, gvars, lvars, wvars>>

NextSave ==
    \/ NextRun
    \/ WriteParquetFails

SpecSave == InitSave /\ [][NextSave]_vars

(***************************************************************************)
(* load_all_tables(execution_date) of load_to_bq.py, after a transform run *)
(* of the date whose three files are in the clean zone, or some of them:   *)
(* load_fact_table, load_dimension_table and load_categories_table one     *)
(* after the other, each exception logged and raised again.                *)
(***************************************************************************)
NoCategories == [id \in CategoryIds |-> NoRow]

\* the loads one after the other, an exception of one logged and not raised
load_at_after_logging ==
    IF called # "load_all_tables" THEN "none"
    ELSE IF fact_load = NotCalled THEN "fact"
    ELSE IF dim_load = NotCalled THEN "dimension"
    ELSE IF load_pc = "idle" THEN "categories"
    ELSE "none"

\* the load of the call that runs next, "none" when the call has ended
LoadAllAt ==
    IF called # "load_all_tables" \/ ret # NoCall THEN "none"
    ELSE IF fact_load = NotCalled THEN "fact"
    ELSE IF dim_load = NotCalled THEN "dimension"
    ELSE "categories"

InitLoadAll ==
    /\ called = "load_all_tables"
    /\ ret = NoCall
    /\ \E df \in LoadBatches :
          \E frames \in {transform_data(df, TRUE, TRUE).v} :
             \E written \in SUBSET {"fact", "dim", "cat"} :
                LET File(f) == IF f \in written THEN Stored(frames[f]) ELSE NoObject
                IN  /\ arg \in ExecutionDates
                    /\ fact_zone = [NoFactZone EXCEPT ![arg] = File("fact")]
                    /\ dim_zone = [NoDimZone EXCEPT ![arg] = File("dim")]
                    /\ clean_cat = File("cat")
    /\ fact_daily_snapshot = <<>>
    /\ snapshot_before = <<>>
    /\ fact_load = NotCalled
    /\ fact_partitioning \in {"column", "ingestion"}
    /\ fact_steps = 0
    /\ dim_products = <<>>
    /\ products_before = <<>>
    /\ dim_load = NotCalled
    /\ dim_steps = 0
    /\ dim_categories = NoCategories
    /\ temp_table = NoTable
    /\ load_pc = "idle"
    /\ loads = 0
    /\ np_strict = TRUE
    /\ sort_stable = TRUE
    /\ TransformIdle
    /\ TrendsIdle
    /\ FxIdle
    /\ TrendsDagIdle
    /\ RerunIdle
    /\ FetchIdle

\* lines 491-496: load_fact_table(bq_client, gcs_client, execution_date)
LoadAllFact ==
    /\ LoadAllAt = "fact"
    /\ LET file == fact_zone[arg]
           outcome ==
               IF file = NoObject THEN Raise("ValueError")
               ELSE IF /\ fact_partitioning = "column"
                       /\ OutsidePartition(file.rows, strptime_date(arg))
                    THEN Raise("BadRequest")
               ELSE Ret(arg)
       IN  /\ fact_load' = outcome
           /\ fact_daily_snapshot' =
                  IF outcome.k = "ret"
                  THEN write_truncate(fact_daily_snapshot, strptime_date(arg), file.rows)
                  ELSE fact_daily_snapshot
           /\ ret' = IF outcome.k = "ret" THEN ret ELSE outcome
    /\ snapshot_before' = fact_daily_snapshot
    /\ UNCHANGED <<arg, called, fact_zone, fact_partitioning, fact_steps,
                   tvars, bvars, gvars, lvars, xvars, svars, dvars, rvars, cvars>>

\* lines 498-503: load_dimension_table(bq_client, gcs_client, execution_date)
LoadAllDimension ==
    /\ LoadAllAt = "dimension"
    /\ LET file == dim_zone[arg]
           merged == IF file = NoObject THEN Raise("ValueError")
                     ELSE products_merge_query(dim_products, file.rows)
       IN  /\ dim_load' = IF merged.k = "ret" THEN Ret(arg) ELSE merged
           /\ dim_products' = IF merged.k = "ret" THEN merged.v ELSE dim_products
           /\ ret' = IF merged.k = "ret" THEN ret ELSE merged
    /\ products_before' = dim_products
    /\ UNCHANGED <<arg, called, dim_zone, dim_steps,
                   tvars, bvars, gvars, lvars, xvars, svars, fvars, rvars, cvars>>

\* lines 505-510 and 512-524: load_categories_table(...), then the return
LoadAllCategories ==
    /\ LoadAllAt = "categories"
    /\ IF clean_cat = NoObject
       THEN /\ load_pc' = "raised"
            /\ ret' = Raise("ValueError")
            /\ UNCHANGED dim_categories
       ELSE /\ load_pc' = "returned"
            /\ ret' = Ret("success")
            /\ dim_categories' = merge_query(dim_categories, clean_cat.rows)
    /\ UNCHANGED <<arg, called, clean_cat, temp_table, loads,
                   tvars, bvars, gvars, xvars, svars, fvars, dvars, rvars, cvars>>

\* the load job or query of the running load is refused by the service: the
\* load raises before its table has changed
LoadAllJobFails ==
    /\ LoadAllAt # "none"
    /\ ret' = Raise("GoogleAPIError")
    /\ fact_load' = IF LoadAllAt = "fact" THEN ret' ELSE fact_load
    /\ dim_load' = IF LoadAllAt = "dimension" THEN ret' ELSE dim_load
    /\ load_pc' = IF LoadAllAt = "categories" THEN "raised" ELSE load_pc
    /\ UNCHANGED <<arg, called, clean_cat, dim_categories, temp_table, loads,
                   fact_zone, fact_daily_snapshot, snapshot_before,
                   fact_partitioning, fact_steps,
                   dim_zone, dim_products, products_before, dim_steps,
                   tvars, bvars, gvars, xvars, svars, rvars, cvars>>

NextLoadAll ==
    \/ LoadAllFact
    \/ LoadAllDimension
    \/ LoadAllCategories
    \/ LoadAllJobFails

SpecLoadAll == InitLoadAll /\ [][NextLoadAll]_vars

(***************************************************************************)
(* One call of fetch_batch_with_retry(keywords, timeframe, geo) of         *)
(* dags/trends_dag.py.  The cache file of the query's key is absent or was *)
(* written some seconds ago, whole or cut short; a request attempt ends    *)
(* with an exception, an empty frame or a frame with rows.  An attempt is  *)
(* a bounded sleep and requests with a timeout, so it always ends.         *)
(***************************************************************************)
max_retries == 5

base_delay == 60

max_delay == 600

cache_ttl == 21600

\* random.uniform(*ANTI_BLOCK_CONFIG['jitter_range']): the ends of the range
JitterRange == {5, 15}

\* a frame of interest_over_time(): its rows, one per date
DataFrame(rows) == [k |-> "frame", rows |-> rows]

FetchedFrames == {DataFrame(<<"2026-01-18">>), DataFrame(<<"2026-01-18", "2026-01-19">>)}

\* df.to_json(orient='split', date_format='iso') and pd.read_json of it
to_json(df) == [k |-> "json", split |-> df.rows]
read_json(data) == DataFrame(data.split)

\* the cache file save_to_cache leaves: age in seconds since it was written
CacheEntry(age, readable, df) ==
    [k |-> "file", age |-> age, readable |-> readable, data |-> to_json(df)]

CacheAges == {0, cache_ttl, cache_ttl + 1}

CacheFiles ==
    {NoObject}
    \cup {CacheEntry(age, readable, df) :
             age \in CacheAges, readable \in BOOLEAN, df \in FetchedFrames}

\* what pytrends.interest_over_time() returns, or the exception of the try
Responses ==
    {Raise("429"), Raise("ConnectionError"), Ret(DataFrame(<<>>))}
    \cup {Ret(df) : df \in FetchedFrames}

RECURSIVE Exp2(_)
Exp2(n) == IF n = 0 THEN 1 ELSE 2 * Exp2(n - 1)

\* load_from_cache(cache_key): the cached frame, None (NULL) when there is
\* no file, when it is older than cache_ttl or when reading it fails
load_from_cache(file) ==
    IF file = NoObject THEN NULL
    ELSE IF file.age > cache_ttl THEN NULL
    ELSE IF ~file.readable THEN NULL
    ELSE read_json(file.data)

\* save_to_cache(cache_key, df): the file is written, or the write fails
\* before the file is opened or after it was truncated
save_to_cache(file, df) ==
    {CacheEntry(0, TRUE, df), CacheEntry(0, FALSE, df), file}

\* the backoff base_delay * 2^retry_count
smart_delay_doubled(retry_count, jitter) ==
    Min({base_delay * Exp2(retry_count), max_delay}) + jitter

\* the seconds smart_delay(retry_count) sleeps for retry_count > 0
smart_delay(retry_count, jitter) ==
    Min({base_delay * Exp2(retry_count - 1), max_delay}) + jitter

HasRows(response) == response.k = "ret" /\ response.v.rows # <<>>

InitFetch ==
    /\ cache_file \in CacheFiles
    /\ cache_found = cache_file
    /\ responses = <<>>
    /\ waited = <<>>
    /\ fetch_out = NotCalled
    /\ np_strict = TRUE
    /\ sort_stable = TRUE
    /\ ParserIdle
    /\ TransformIdle
    /\ TrendsIdle
    /\ LoadIdle
    /\ FxIdle
    /\ TrendsDagIdle
    /\ FactLoadIdle
    /\ DimLoadIdle
    /\ RerunIdle

\* lines 232-235: the cached frame is returned
ReturnCached ==
    /\ fetch_out = NotCalled
    /\ responses = <<>>
    /\ load_from_cache(cache_file) # NULL
    /\ fetch_out' = Ret(load_from_cache(cache_file))
    /\ UNCHANGED <<cache_file, cache_found, responses, waited,
                   pvars, tvars, bvars, gvars, lvars, xvars, svars, fvars, dvars, rvars>>

\* lines 239-294: one pass of the loop; the call returns the frame of a
\* response with rows, and None after the last attempt
RequestAttempt ==
    /\ fetch_out = NotCalled
    /\ load_from_cache(cache_found) = NULL
    /\ Len(responses) < max_retries
    /\ \E response \in Responses, jitter \in JitterRange :
          /\ responses' = Append(responses, response)
          /\ waited' = IF Len(responses) > 0
                       THEN Append(waited, smart_delay(Len(responses), jitter))
                       ELSE waited
          /\ IF HasRows(response)
             THEN /\ cache_file' \in save_to_cache(cache_file, response.v)
                  /\ fetch_out' = Ret(response.v)
             ELSE /\ cache_file' = cache_file
                  /\ fetch_out' = IF Len(responses) + 1 = max_retries
                                  THEN Ret(NULL)
                                  ELSE fetch_out
    /\ UNCHANGED <<cache_found,
                   pvars, tvars, bvars, gvars, lvars, xvars, svars, fvars, dvars, rvars>>

NextFetch ==
    \/ ReturnCached
    \/ RequestAttempt

SpecFetch == InitFetch /\ [][NextFetch]_vars /\ WF_vars(NextFetch)

(***************************************************************************)
(* Properties of transform_data and run_transformation.                    *)
(***************************************************************************)
\* what step 2 makes of one raw record
RecordId(r) == ValueOf(ToInt64(Cell(r, "product_id")))
RecordAt(r) == ValueOf(to_datetime_utc(Cell(r, "_extracted_at")))
RecordPrice(r) == ValueOf(clean_price(Cell(r, "price"), np_strict))
FactOfRecord(r) == FactRow(ParsedRow(r, CellOutcomes(<<r>>, 1, np_strict)))

\* what each record of a frame says: its product, its instant and its price
Reading(df) ==
    [i \in DOMAIN df |->
        [id |-> RecordId(df[i]),
         at |-> RecordAt(df[i]),
         price |-> RecordPrice(df[i])]] \o <<>>

\* the fact row each record of a frame would make
Facts(df) == [i \in DOMAIN df |-> FactOfRecord(df[i])]

\* instant a is later than b; a record without timestamp is older than any
Later(a, b) == a.k = "ts" /\ (b.k # "ts" \/ Earlier(b, a))

RecordsOf(recs, p) == {i \in DOMAIN recs : recs[i].id = p}
BatchIds(recs) == {recs[i].id : i \in DOMAIN recs} \ {NULL}
DuplicatedIds(recs) ==
    {p \in BatchIds(recs) : Cardinality(RecordsOf(recs, p)) > 1}
LatestOf(recs, p) ==
    {i \in RecordsOf(recs, p) :
        \A j \in RecordsOf(recs, p) : ~Later(recs[j].at, recs[i].at)}
FactRowsOf(p) == {n \in DOMAIN fact_df : fact_df[n].product_id = p}
FromLatest(recs, facts, p) ==
    \A n \in FactRowsOf(p) : \E i \in LatestOf(recs, p) : fact_df[n] = facts[i]

\* transform_data has just returned (the frames do not change afterwards)
Returned == pc = "check"
\* transform_data has just returned or raised
Called == transformed # NotCalled /\ pc \in {"check", "failed"} /\ clean_zone = EmptyCleanZone

OneRowFromLatest(recs, facts) ==
    \A p \in DuplicatedIds(recs) :
        Cardinality(FactRowsOf(p)) = 1 /\ FromLatest(recs, facts, p)

\* C1 as stated: after transform_data every product_id with several raw
\* records has exactly one fact row, all of whose fields come from a record
\* of that product with the greatest extracted_at.
C1_ExactlyOneRowPerDuplicatedId ==
    Returned => OneRowFromLatest(Reading(raw_df), Facts(raw_df))

AtMostOneRowFromLatest(recs, facts) ==
    \A p \in DuplicatedIds(recs) :
        /\ Cardinality(FactRowsOf(p)) <= 1
        /\ FromLatest(recs, facts, p)
        /\ (\A i \in LatestOf(recs, p) : recs[i].price # NULL)
               => Cardinality(FactRowsOf(p)) = 1
        /\ (\A i \in LatestOf(recs, p) : recs[i].price = NULL)
               => Cardinality(FactRowsOf(p)) = 0

\* C1 amended: every product_id with several raw records has at most one
\* fact row, and that row comes whole from a record of the product with the
\* greatest extracted_at; the row exists when every such record has a price
\* and does not exist when none of them has one.
C1_AtMostOneRowFromLatest ==
    Returned => AtMostOneRowFromLatest(Reading(raw_df), Facts(raw_df))

LaterObservationKept(recs, facts) ==
    \E p \in DuplicatedIds(recs) :
        /\ Cardinality(LatestOf(recs, p)) = 1
        /\ \E i \in LatestOf(recs, p), j \in RecordsOf(recs, p) :
              /\ recs[j].price \notin {NULL, recs[i].price}
              /\ \E n \in FactRowsOf(p) : fact_df[n] = facts[i]

\* a product seen twice at different instants with different prices, whose
\* fact row is the later observation
C1_Witness ==
    Returned /\ LaterObservationKept(Reading(raw_df), Facts(raw_df))

\* the batches of the end-to-end scenario: three records of two products,
\* exactly one of the three without a price
Unpriced(recs) == {i \in DOMAIN recs : recs[i].price = NULL}
Scenario(recs) ==
    /\ Len(recs) = 3
    /\ \A i \in DOMAIN recs : recs[i].id # NULL
    /\ Cardinality(BatchIds(recs)) = 2
    /\ Cardinality(Unpriced(recs)) = 1
Twins(recs, i) == RecordsOf(recs, recs[i].id) \ {i}
\* the record without price is the unduplicated one, or the later of the pair
UnpricedSurvives(recs) ==
    \A i \in Unpriced(recs) : \A j \in Twins(recs, i) : Later(recs[i].at, recs[j].at)
\* the record without price is the earlier of the pair
UnpricedSuperseded(recs) ==
    \A i \in Unpriced(recs) : \E j \in Twins(recs, i) : Later(recs[j].at, recs[i].at)

ScenarioOneRow(recs) ==
    Scenario(recs) => transformed.k = "ret" /\ Len(fact_df) = 1

\* C2 as stated: a batch of 3 records, two of them sharing a product_id and
\* one of the three without price, yields exactly 1 fact row.
C2_ScenarioYieldsOneRow ==
    (Called /\ Len(raw_df) = 3) => ScenarioOneRow(Reading(raw_df))

ScenarioRows(recs) ==
    Scenario(recs) =>
        /\ transformed.k = "ret"
        /\ UnpricedSurvives(recs) => Len(fact_df) = 1
        /\ UnpricedSuperseded(recs) => Len(fact_df) = 2
        /\ Len(fact_df) \in {1, 2}

\* C2 amended: such a batch yields exactly 1 fact row when the record
\* without price is the unduplicated one or the later of the pair, and 2
\* rows when it is the earlier of the pair.
C2_ScenarioRowCount ==
    (Called /\ Len(raw_df) = 3) => ScenarioRows(Reading(raw_df))

LaterUnpricedOfPair(recs) ==
    /\ Scenario(recs) /\ UnpricedSurvives(recs)
    /\ \E i \in Unpriced(recs) : Twins(recs, i) # {}

\* the later record of the pair has no price and one row is left
C2_Witness ==
    /\ Returned /\ Len(raw_df) = 3 /\ Len(fact_df) = 1
    /\ LaterUnpricedOfPair(Reading(raw_df))

NonNullRowsForPricedProducts(recs, facts) ==
    /\ \A n \in DOMAIN fact_df :
          /\ fact_df[n].product_id # NULL /\ fact_df[n].current_price # NULL
          /\ \E i \in DOMAIN recs :
                /\ recs[i].id # NULL /\ recs[i].price # NULL
                /\ fact_df[n] = facts[i]
    /\ \A p \in BatchIds(recs) :
          (\A i \in RecordsOf(recs, p) : recs[i].price # NULL)
              => FactRowsOf(p) # {}

\* C3 as stated: transform_data returns for every batch of records, its
\* fact rows have a product_id and a current_price, the records without one
\* of the two are not among them, and every product all of whose records
\* have a price has its row.
C3_NullsDroppedOthersProduced ==
    (Called /\ raw_df # <<>>) =>
        /\ transformed.k = "ret"
        /\ NonNullRowsForPricedProducts(Reading(raw_df), Facts(raw_df))

\* C7: once transform_data has returned an empty fact frame, the run fails
\* with the ValueError of run_transformation and the clean zone holds none
\* of the three files.
C7_EmptyFactAbortsBeforeSave ==
    (transformed.k = "ret" /\ fact_df = <<>>) =>
        /\ pc \in {"check", "failed"}
        /\ pc = "failed" => error = Failure("ValueError", "run_transformation")
        /\ clean_zone = EmptyCleanZone

\* a run that failed on the empty fact frame of a non-empty batch
C7_Witness ==
    /\ pc = "failed" /\ error.at = "run_transformation"
    /\ raw_df # <<>> /\ fact_df = <<>> /\ dim_df = <<>>

\* C8 as stated: when the date has no raw record - no file under the
\* prefix, or files without records - the run fails in load_raw_data and
\* transform_data is never called.
C8_NoRecordsAbortsBeforeTransform ==
    AllRecords(raw_zone) = <<>> =>
        /\ transformed = NotCalled
        /\ pc \in {"load", "failed"}
        /\ pc = "failed" => error.at = "load_raw_data"

\* C5 as stated: a batch with a malformed scalar never makes transform_data
\* raise, and the well-formed record of the batch has its fact row.
C5_MalformedValueNeverAborts ==
    (Called /\ raw_df # <<>>) =>
        /\ transformed.k = "ret"
        /\ (\E i \in DOMAIN raw_df : raw_df[i] = WellFormed)
               => \E n \in DOMAIN fact_df : fact_df[n] = FactOfRecord(WellFormed)

\* C4 as stated: every parser returns a value on every raw value.
C4_ParsersNeverRaise == called \notin {"none", "off"} => ret.k = "ret"

(***************************************************************************)
(* Properties of transform_trends_data.                                    *)
(***************************************************************************)
\* the score a raw cell stands for: nothing and "<1" count as 0
RawScore(text) ==
    IF text \in {Blank, LessThanOne} THEN 0
    ELSE ToInt(SubSeq(text, 1, RunEnd(text, 1)))

ColumnOf(keyword) ==
    CHOOSE c \in DOMAIN trends_csv.header : trends_csv.header[c] = keyword

InputPairs ==
    {[date |-> date_of(trends_csv.rows[i].date), keyword |-> trends_csv.header[c]] :
        i \in DOMAIN trends_csv.rows, c \in DOMAIN trends_csv.header}

InputRowsOf(pair) ==
    {i \in DOMAIN trends_csv.rows : date_of(trends_csv.rows[i].date) = pair.date}

InputScoresOf(pair) ==
    {RawScore(trends_csv.rows[i].cells[ColumnOf(pair.keyword)]) :
        i \in InputRowsOf(pair)}

MarkedPartial(pair) ==
    \E i \in InputRowsOf(pair) : trends_csv.rows[i].isPartial = B(TRUE)

\* C9: the trends transform outputs exactly one row per (date, keyword) pair
\* of its input; the row's score is the largest score of the pair's input
\* rows, a blank or "<1" cell counting as 0, and its is_partial is true
\* exactly when an input row of the pair is marked partial.
C9_OneRowPerPairMaxScoreAnyPartial ==
    trends_out.k = "ret" =>
        /\ Len(trends_out.v) = Cardinality(InputPairs)
        /\ \A pair \in InputPairs :
               \E g \in DOMAIN trends_out.v :
                   /\ KeyOf(trends_out.v[g]) = pair
                   /\ trends_out.v[g].score = Max(InputScoresOf(pair))
                   /\ trends_out.v[g].is_partial = MarkedPartial(pair)

\* a pair with two input rows of different scores, one of them 0 for a blank
\* or "<1" cell, exactly one of the rows marked partial
C9_Witness ==
    /\ trends_out.k = "ret"
    /\ \E pair \in InputPairs :
           /\ Cardinality(InputRowsOf(pair)) = 2
           /\ Cardinality(InputScoresOf(pair)) = 2
           /\ 0 \in InputScoresOf(pair)
           /\ MarkedPartial(pair)
           /\ \E i \in InputRowsOf(pair) : trends_csv.rows[i].isPartial = B(FALSE)

(***************************************************************************)
(* Properties of load_categories_table.                                    *)
(***************************************************************************)
Merging == load_pc = "merge" /\ load_pc' = "cleanup"

\* C10: in every step of every sequence of loads, a dim_categories row keeps
\* a non-null category_name and a non-null standard_category whatever the
\* incoming row holds, and a merge puts the incoming value in place of a
\* null one.
C10_SetNamesNeverOverwritten ==
    [][\A id \in CategoryIds :
           LET stored == dim_categories[id]
               after == dim_categories'[id]
           IN  stored # NoRow =>
                   /\ after # NoRow
                   /\ stored.category_name # NULL =>
                          after.category_name = stored.category_name
                   /\ stored.standard_category # NULL =>
                          after.standard_category = stored.standard_category
                   /\ Merging /\ SourceRow(temp_table, id) # NoRow =>
                          LET incoming == SourceRow(temp_table, id)
                          IN  /\ stored.category_name = NULL =>
                                     after.category_name = incoming.category_name
                              /\ stored.standard_category = NULL =>
                                     after.standard_category =
                                         incoming.standard_category]_vars

\* a second merge has run; the incoming row of one category carried another
\* name and another standard_category than the ones stored, and the incoming
\* row of the other carried nulls over stored values
C10_Witness ==
    /\ load_pc = "cleanup"
    /\ loads = MaxLoads
    /\ LET phone == SourceRow(temp_table, PhoneId)
           tv == SourceRow(temp_table, TvId)
       IN  /\ phone # NoRow /\ tv # NoRow
           /\ phone.category_name # NULL
           /\ dim_categories[PhoneId].category_name # NULL
           /\ phone.category_name # dim_categories[PhoneId].category_name
           /\ phone.standard_category # NULL
           /\ dim_categories[PhoneId].standard_category # NULL
           /\ phone.standard_category # dim_categories[PhoneId].standard_category
           /\ tv.category_name = NULL /\ tv.standard_category = NULL
           /\ dim_categories[TvId].category_name # NULL
           /\ dim_categories[TvId].standard_category # NULL

(***************************************************************************)
(* Properties of the DAG tiki_exchange_rate_ingest.                        *)
(***************************************************************************)
RowsOn(table, d) ==
    IF table = NoTable THEN 0 ELSE Len(SelectSeq(table.rows, LAMBDA r : r.date = d))

\* C11: when a run of tiki_exchange_rate_ingest has ended with success,
\* whatever runs and task retries came before, dim_exchange_rate holds at
\* most one row for each logical date.
C11_AtMostOneRowPerDate ==
    fx_task = "success" => \A d \in FxDates : RowsOn(dim_exchange_rate, d) <= 1

(***************************************************************************)
(* Properties of the merge into fact_google_trends.                        *)
(***************************************************************************)
KeysOf(rows) == {KeyOf(rows[i]) : i \in DOMAIN rows}

RowSet(rows) == {rows[i] : i \in DOMAIN rows}

OneRowPerKey(rows) ==
    \A i, j \in DOMAIN rows : KeyOf(rows[i]) = KeyOf(rows[j]) => i = j

\* the merge of the run has committed
Merged == trends_task = "success"

\* C12: fact_google_trends never has two rows with the same (date, keyword);
\* after a merge every row of the staging batch is stored as it is in the
\* batch (score, is_partial and inserted_at of this run, a lower score
\* included) and the other rows of the table are the rows it had before
\* whose key is not in the batch, unchanged.
C12_MergeUpsertsByDateKeyword ==
    /\ OneRowPerKey(fact_google_trends)
    /\ Merged =>
          RowSet(fact_google_trends) =
              RowSet(staging.rows)
                  \cup {p \in RowSet(fact_before) : KeyOf(p) \notin KeysOf(staging.rows)}

\* a later run has lowered the score of a stored row
C12_Witness ==
    /\ Merged
    /\ \E p \in RowSet(fact_before), s \in RowSet(staging.rows) :
          /\ KeyOf(p) = KeyOf(s)
          /\ s.score < p.score
          /\ s \in RowSet(fact_google_trends)

(***************************************************************************)
(* Properties of load_fact_table.                                          *)
(***************************************************************************)
\* the rows of the table that carry the snapshot_date d, and the others
RowsOfDate(table, d) == SelectSeq(table, LAMBDA t : t.row.snapshot_date = d)
RowsOfOtherDates(table, d) == SelectSeq(table, LAMBDA t : t.row.snapshot_date # d)

StoredRows(table) == {table[i].row : i \in DOMAIN table}

\* C13: after load_fact_table has succeeded for the date D, the rows of
\* fact_daily_snapshot with snapshot_date = D are exactly the rows of the
\* clean-zone fact batch of D, the rows of every other date are as they
\* were before the call, and loading the batch again changes nothing.
C13_PartitionHoldsExactlyTheBatch ==
    fact_load.k = "ret" =>
        LET D == strptime_date(fact_load.v)
            batch == fact_zone[fact_load.v].rows
        IN  /\ StoredRows(RowsOfDate(fact_daily_snapshot, D)) = RowSet(batch)
            /\ Len(RowsOfDate(fact_daily_snapshot, D)) = Len(batch)
            /\ RowsOfOtherDates(fact_daily_snapshot, D) = RowsOfOtherDates(snapshot_before, D)
            /\ write_truncate(fact_daily_snapshot, D, batch) = fact_daily_snapshot

(***************************************************************************)
(* Properties of load_dimension_table.                                     *)
(***************************************************************************)
ProductIds(rows) == {rows[i].product_id : i \in DOMAIN rows}

OneRowPerProduct(rows) ==
    \A i, j \in DOMAIN rows : rows[i].product_id = rows[j].product_id => i = j

\* the incoming batch of the call that has just succeeded
Incoming == dim_zone[dim_load.v].rows

\* C14: dim_products never has two rows with the same product_id; a call
\* of load_dimension_table deletes no row, leaves the rows whose product_id
\* is not in the incoming batch as they were, and leaves the created_at of
\* the rows that already existed as it was.
C14_MergeKeepsRowsAndCreatedAt ==
    /\ OneRowPerProduct(dim_products)
    /\ dim_load.k = "ret" =>
          \A p \in RowSet(products_before) :
              \E t \in RowSet(dim_products) :
                  /\ t.product_id = p.product_id
                  /\ t.created_at = p.created_at
                  /\ p.product_id \notin ProductIds(Incoming) => t = p

\* a product that was already stored comes again with another created_at,
\* and the stored row has taken the new updated_at
C14_Witness ==
    /\ dim_load.k = "ret"
    /\ \E p \in RowSet(products_before), s \in RowSet(Incoming), t \in RowSet(dim_products) :
          /\ s.product_id = p.product_id
          /\ t.product_id = p.product_id
          /\ s.created_at # p.created_at
          /\ t.updated_at = s.updated_at
          /\ t.updated_at # p.updated_at

(***************************************************************************)
(* Properties of transform_data on the optional category columns.          *)
(***************************************************************************)
\* the optional columns: whether some record of the batch carries the key
Carries(key) == HasColumn(raw_df, key)

\* C16: for every batch, whichever of category_path, category_id,
\* root_category_id, category_depth and category_name its records carry,
\* transform_data returns three frames with exactly the columns of
\* FACT_SCHEMA, DIM_PRODUCTS_SCHEMA and DIM_CATEGORIES_SCHEMA, each in the
\* order of its schema, and a target column the batch has no value for
\* (root_category_id, category_depth, category_name) is null in every row.
C16_SchemaColumnsWhicheverOptional ==
    Called =>
        /\ transformed.k = "ret"
        /\ output_columns(raw_df) =
               Ret([fact |-> FACT_SCHEMA, dim |-> DIM_PRODUCTS_SCHEMA,
                    cat |-> DIM_CATEGORIES_SCHEMA])
        /\ \A i \in DOMAIN dim_df :
               /\ ~Carries("root_category_id") /\ ~Carries("category_path")
                      => dim_df[i].root_category_id = NULL
               /\ ~Carries("category_depth") /\ ~Carries("category_path")
                      => dim_df[i].category_depth = NULL
        /\ \A i \in DOMAIN cat_df :
               ~Carries("category_name") => cat_df[i].category_name = NULL

\* the same for the batches transform_data returns from
SchemaColumnsWhenReturned ==
    Returned =>
        /\ output_columns(raw_df) =
               Ret([fact |-> FACT_SCHEMA, dim |-> DIM_PRODUCTS_SCHEMA,
                    cat |-> DIM_CATEGORIES_SCHEMA])
        /\ \A i \in DOMAIN dim_df :
               /\ ~Carries("root_category_id") /\ ~Carries("category_path")
                      => dim_df[i].root_category_id = NULL
               /\ ~Carries("category_depth") /\ ~Carries("category_path")
                      => dim_df[i].category_depth = NULL

\* C17: every row of the category dimension output has a category_level of
\* 1, 2 or 3.
C17_CategoryLevelOneToThree ==
    Returned => \A i \in DOMAIN cat_df : cat_df[i].category_level \in {I(1), I(2), I(3)}

\* what step 2 makes of the category cells of record i of the batch
Resolved(df, i) ==
    [category_id |-> ValueOf(ToInt64(CategoryCell(df, i, np_strict))),
     root_category_id |-> ValueOf(ToInt64(RootFilled(df, i))),
     category_depth |-> ValueOf(ToInt64(DepthFromPath(df, i))),
     url_category |-> ValueOf(extract_category_id(Cell(df[i], "_category_url"), np_strict))]

\* the carried values are kept, the empty slots are filled from the path
KeptOrFilled(r, path, got) ==
    /\ ~IsNA(Cell(r, "category_id")) => got.category_id = r.category_id
    /\ ~IsNA(Cell(r, "root_category_id")) => got.root_category_id = r.root_category_id
    /\ ~IsNA(Cell(r, "category_depth")) /\ ~IsZero(Cell(r, "category_depth"))
           => got.category_depth = r.category_depth
    /\ path # <<>> =>
           /\ IsNA(Cell(r, "category_id")) => got.category_id = get_leaf_id(path)
           /\ IsNA(Cell(r, "root_category_id")) => got.root_category_id = get_root_id(path)
           /\ IsNA(Cell(r, "category_depth")) \/ IsZero(Cell(r, "category_depth"))
                  => got.category_depth = get_depth(path)
    /\ path = <<>> /\ IsNA(Cell(r, "category_id")) => got.category_id = got.url_category

\* C18: for each record of a batch, a non-null category_id, a non-null
\* root_category_id and a non-zero category_depth the record carries are
\* kept; a null category_id or root_category_id and a null or zero
\* category_depth are filled from the parsed category_path (last segment,
\* first segment, segment count); a category_id that is still null is
\* taken from the category URL.
C18_CarriedKeptEmptyFilledFromPath ==
    Called =>
        \A i \in DOMAIN raw_df :
            KeptOrFilled(raw_df[i], ParsedPath(raw_df, i), Resolved(raw_df, i))

(***************************************************************************)
(* Properties of the category dimension output                             *)
(***************************************************************************)
CategoryIdsOf(rows) == {rows[i].category_id : i \in DOMAIN rows} \ {NULL}

\* the category ids step 2 resolves for the raw records of the batch
ObservedCategoryIds == {Resolved(raw_df, i).category_id : i \in DOMAIN raw_df} \ {NULL}

\* some raw record of the batch resolves to category c
Observed(c) == \E i \in DOMAIN raw_df : Resolved(raw_df, i).category_id = c

NoSharedCategoryId ==
    \A i, j \in DOMAIN cat_df : cat_df[i].category_id = cat_df[j].category_id => i = j

\* C20 (as stated): the category dimension output has exactly one row for
\* each distinct non-null category_id among the raw records of the batch,
\* and no two rows share a category_id.
C20_OneRowPerObservedCategory ==
    Returned => /\ NoSharedCategoryId
                /\ CategoryIdsOf(cat_df) = ObservedCategoryIds

\* C20 (amended): the category dimension output has exactly one row for
\* each distinct non-null category_id among the records that survive
\* de-duplication and the null check (the rows of the product dimension
\* output), and no two rows share a category_id; a category carried only by
\* discarded records has no row.
C20_OneRowPerSurvivingCategory ==
    Returned => /\ NoSharedCategoryId
                /\ CategoryIdsOf(cat_df) = CategoryIdsOf(dim_df)
                /\ \A c \in CategoryIdsOf(cat_df) : Observed(c)

\* a returned batch with a category row, one of whose categories was carried
\* only by a discarded record
C20_Witness ==
    /\ Returned
    /\ cat_df # <<>>
    /\ ObservedCategoryIds \ CategoryIdsOf(cat_df) # {}

(***************************************************************************)
(* Properties of has_tiki_now                                              *)
(***************************************************************************)
\* the badges value holds the tag, whatever the case of its letters
HoldsTikiNow(badges) ==
    CASE badges.k = "list" ->
             \E i \in DOMAIN badges.items :
                 badges.items[i].k = "str" /\ Lower(badges.items[i].s) = TikiNow
      [] badges.k = "str" -> Contains(Lower(badges.s), TikiNow)
      [] OTHER -> FALSE

\* C19: the tiki_now flag is true exactly when the badges value, a list of
\* any length or a text, contains the tag 'tiki_now' in any case of its
\* letters, and false when there is no badges value.
C19_TikiNowIffTagged ==
    called = "has_tiki_now" => ret = Ret(HoldsTikiNow(arg))

NamesOf(id) ==
    {IF IsNA(Cell(raw_df[i], "category_name")) THEN NULL
     ELSE raw_df[i].category_name :
        i \in {j \in DOMAIN raw_df : Resolved(raw_df, j).category_id = id}}

\* C21: transform_data returns whether or not the raw records carry a
\* category_name; when they carry it every category row holds a name its
\* category has in the raw records, and when they do not every category
\* row has a null category_name.
C21_SucceedsWithOrWithoutCategoryName ==
    Called =>
        /\ transformed.k = "ret"
        /\ \A i \in DOMAIN cat_df :
               IF Carries("category_name")
               THEN cat_df[i].category_name \in NamesOf(cat_df[i].category_id)
               ELSE cat_df[i].category_name = NULL

\* the same for the batches whose records carry a category_name
NamePreservedWhenCarried ==
    Called /\ Carries("category_name") =>
        /\ transformed.k = "ret"
        /\ \A i \in DOMAIN cat_df :
               cat_df[i].category_name \in NamesOf(cat_df[i].category_id)

(***************************************************************************)
(* Properties of parse_sales_volume on a text                              *)
(***************************************************************************)
\* the decimal number int.frac times mult, truncated to an integer
TimesTruncated(int, frac, mult) ==
    ToInt(int) * mult + (ToInt(frac) * mult) \div Pow10(Len(frac))

\* the positions of text where a number followed by a suffix starts
SuffixedAt(text) == {i \in 1..Len(text) : IsDigit(text[i]) /\ SuffixMatch(text, i).ok}

\* what the statement gives for a lower-cased, stripped text
StatedSales(text) ==
    IF SuffixedAt(text) # {}
    THEN LET m == SuffixMatch(text, Min(SuffixedAt(text)))
         IN  TimesTruncated(m.int, m.frac, IF m.suffix = "k" THEN 1000 ELSE 1000000)
    ELSE IF ThousandsDigits(text) # <<>> THEN ToInt(ThousandsDigits(text))
    ELSE ToInt(FirstDigitRun(text))

\* C22: for a text, parse_sales_volume returns the number before a suffix
\* k, tr or m (its fraction read after '.' or ',') times 1,000 for k and
\* 1,000,000 for tr and m, truncated to an integer; without a suffix the
\* digits of dot-separated groups of 3 digits; otherwise the first run of
\* digits, and 0 for a text without a digit.
C22_SalesVolumeOfText ==
    called = "parse_sales_volume" /\ arg.k = "str" =>
        ret = Ret(I(StatedSales(Strip(Lower(arg.s)))))

\* the same for the texts whose number is not among the decimal numbers
\* that the double product falls short of
SalesVolumeOfExactProducts ==
    called = "parse_sales_volume" /\ arg.k = "str" =>
        LET text == Strip(Lower(arg.s))
            short == /\ SuffixedAt(text) # {}
                     /\ LET m == SuffixMatch(text, Min(SuffixedAt(text)))
                        IN  <<ToInt(m.int), ToInt(m.frac), Len(m.frac),
                              Multiplier(m.suffix)>> \in FloatProductShort
        IN  ~short => ret = Ret(I(StatedSales(text)))

(***************************************************************************)
(* Properties of clean_price                                               *)
(***************************************************************************)
\* positions p..e of text are groups of "." and 3 digits, one or more
RECURSIVE GroupsOfThree(_, _, _)
GroupsOfThree(text, p, e) ==
    /\ p + 3 <= e
    /\ text[p] = "."
    /\ \A q \in (p + 1)..(p + 3) : text[q] \in Digits
    /\ (p + 3 = e \/ GroupsOfThree(text, p + 4, e))

\* text[1..e] is a first group of 1 to 3 digits and groups of 3 digits
GroupedUpTo(text, e) ==
    \E d \in 1..3 :
        /\ d < e /\ e <= Len(text)
        /\ \A q \in 1..d : text[q] \in Digits
        /\ GroupsOfThree(text, d + 1, e)

\* a currency suffix, or nothing, after the number
IsCurrencySuffix(tail) ==
    Lower(Strip(tail)) \in {<<>>, <<"U+0111">>, <<"v", "n", "d">>, <<"U+20AB">>}

\* where the grouped number of a text that is one, and a suffix, ends
GroupedEnds(text) ==
    {e \in 1..Len(text) : /\ GroupedUpTo(text, e)
                          /\ IsCurrencySuffix(SubSeq(text, e + 1, Len(text)))}

\* the integer part of the digits and dots of a text, NULL when they are
\* not one number
RemainderInteger(text) ==
    LET rest == SelectSeq(text, LAMBDA c : c \in Digits \cup {"."})
        dots == {i \in DOMAIN rest : rest[i] = "."}
    IN  IF Cardinality(dots) > 1 \/ Cardinality(dots) = Len(rest) THEN NULL
        ELSE IF dots = {} THEN I(ToInt(rest))
        ELSE I(ToInt(SubSeq(rest, 1, Min(dots) - 1)))

StatedPrice(value) ==
    CASE IsNA(value) -> NULL
      [] value.k = "int" -> value
      [] value.k = "bool" -> I(IF value.b THEN 1 ELSE 0)
      [] value.k = "float" -> I(TruncTenths(value.t))
      [] value.k = "str" ->
           LET text == Strip(value.s)
           IN  IF GroupedEnds(text) # {}
               THEN I(ToInt(SelectSeq(SubSeq(text, 1, Max(GroupedEnds(text))),
                                      LAMBDA c : c \in Digits)))
               ELSE RemainderInteger(text)

\* C23: clean_price returns null for null, NaN and a text without a digit,
\* the truncated integer for a number, the digits of a text that is exactly
\* a first group of 1 to 3 digits and dot-separated groups of 3 digits with
\* an optional currency suffix, and for any other text the integer part of
\* its digits and dots, null when they are not one number.
C23_CleanPriceByCase ==
    called = "clean_price" => ret = Ret(StatedPrice(arg))

\* a grouped price with a currency suffix was cleaned to its digits
C23_Witness ==
    /\ called = "clean_price"
    /\ arg = S(<<"1", "2", ".", "0", "0", "0", ".", "5", "0", "0", " ", "V", "N", "D">>)
    /\ ret = Ret(I(12000500))

(***************************************************************************)
(* Properties of transform_data on the order of the raw records            *)
(***************************************************************************)
\* the three outputs of an outcome as sets of rows, the exception of a call
\* that raised
AsRowSets(outcome) ==
    IF outcome.k = "ret"
    THEN [fact |-> RowSet(outcome.v.fact), dim |-> RowSet(outcome.v.dim),
          cat |-> RowSet(outcome.v.cat)]
    ELSE outcome

\* C24: transform_data on the records of a batch in another order gives the
\* same fact, product dimension and category dimension outputs, as sets of
\* rows, also when two records of a product have the same extracted_at and
\* when records of one category carry different root or depth values.
C24_OutputsIndependentOfOrder ==
    rerun # NotCalled => AsRowSets(rerun) = AsRowSets(transformed)

\* the same for the batches in which no two records have the same
\* extracted_at
NoTiedInstants ==
    \A i, j \in DOMAIN raw_df :
        raw_df[i]._extracted_at = raw_df[j]._extracted_at => i = j

OrderIndependentWithoutTies ==
    rerun # NotCalled /\ NoTiedInstants => AsRowSets(rerun) = AsRowSets(transformed)

(***************************************************************************)
(* Properties of the rows load_dimension_table stores                      *)
(***************************************************************************)
\* the columns of dim_products the statement is about (of the columns of
\* the model's rows)
IncomingColumns ==
    {"name", "seller_id", "category_id", "root_category_id", "category_depth",
     "updated_at"}

\* the stored row has the values of the incoming row in the columns
SameIn(t, s, columns) == \A c \in columns : t[c] = s[c]

\* C25: after load_dimension_table for a batch, every product_id of the
\* batch has a dim_products row whose name, seller_id, category_id,
\* root_category_id, category_depth and updated_at are those of the
\* incoming row, whether the product was inserted or already existed.
C25_StoredRowEqualsIncoming ==
    dim_load.k = "ret" =>
        \A s \in RowSet(Incoming) :
            \E t \in RowSet(dim_products) :
                t.product_id = s.product_id /\ SameIn(t, s, IncomingColumns)

\* the same without root_category_id and category_depth
StoredRowEqualsIncomingInMergedColumns ==
    dim_load.k = "ret" =>
        \A s \in RowSet(Incoming) :
            \E t \in RowSet(dim_products) :
                /\ t.product_id = s.product_id
                /\ SameIn(t, s, IncomingColumns \ {"root_category_id", "category_depth"})

(***************************************************************************)
(* Properties of the files a run leaves in the clean zone                  *)
(***************************************************************************)
RunEnded == pc \in {"done", "failed"}

FilesWritten == {f \in {"fact", "dim", "cat"} : clean_zone[f] # NoObject}

\* C26: when a run of run_transformation has ended, by returning or by an
\* exception, the clean zone of the date holds all three files of the run
\* or none of them.
C26_AllThreeFilesOrNone ==
    RunEnded => FilesWritten \in {{}, {"fact", "dim", "cat"}}

\* the same for the runs in which no upload failed
AllOrNoneWithoutFailedUpload ==
    RunEnded /\ error # Failure("GoogleCloudError", "write_parquet_to_gcs") =>
        FilesWritten \in {{}, {"fact", "dim", "cat"}}

(***************************************************************************)
(* Properties of the validation of the exchange rate                       *)
(***************************************************************************)
\* the run has fetched a rate that validate_parquet refuses
RateFailsValidation ==
    /\ xcom.fx_data # NULL
    /\ validate_parquet(transform_fx_rate(xcom.fx_data.rate, ds, xcom.fx_data.source))
           # Ret(TRUE)

LoadedRates ==
    IF dim_exchange_rate = NoTable
    THEN {}
    ELSE {dim_exchange_rate.rows[i].rate : i \in DOMAIN dim_exchange_rate.rows}

\* C27: the rate is validated by transform_fx_data before
\* delete_existing_data runs: no step of a run whose rate fails the
\* validation changes dim_exchange_rate (no row of the date is deleted,
\* none is loaded), the delete and the load task only run for a validated
\* rate, and every row of dim_exchange_rate has a rate above 0.
C27_InvalidRateNeitherDeletesNorLoads ==
    /\ [][RateFailsValidation => dim_exchange_rate' = dim_exchange_rate]_vars
    /\ [](fx_task \in {"delete_existing_data", "load_to_bigquery"} =>
              /\ ~RateFailsValidation
              /\ xcom.parquet_path = transform_fx_rate(xcom.fx_data.rate, ds,
                                                       xcom.fx_data.source))
    /\ [](\A r \in LoadedRates : r > 0)

\* a run for a date that has a row ended as failed on a rate of 0
C27_Witness ==
    /\ fx_task = "failed"
    /\ RateFailsValidation
    /\ xcom.parquet_path = NULL
    /\ RowsOn(dim_exchange_rate, ds) = 1

(***************************************************************************)
(* Properties of the order of de-duplication and null check                *)
(***************************************************************************)
DimRowsOf(p) == {n \in DOMAIN dim_df : dim_df[n].product_id = p}

\* the product's records with the greatest extracted_at all lack a price
LatestUnpriced(recs, p) == \A i \in LatestOf(recs, p) : recs[i].price = NULL

NoRowForLatestUnpriced(recs) ==
    \A p \in BatchIds(recs) :
        LatestUnpriced(recs, p) => FactRowsOf(p) = {} /\ DimRowsOf(p) = {}

\* C28: transform_data de-duplicates before it drops nulls: a product whose
\* most recently extracted record has a null price has no row in the fact
\* output and none in the product dimension output, whatever older records
\* of that product the batch holds.
C28_LatestUnpricedHasNoRow ==
    Returned => NoRowForLatestUnpriced(Reading(raw_df))

OlderPricedDiscarded(recs) ==
    \E p \in DuplicatedIds(recs) :
        /\ Cardinality(LatestOf(recs, p)) = 1
        /\ LatestUnpriced(recs, p)
        /\ \E j \in RecordsOf(recs, p) : recs[j].price # NULL
        /\ FactRowsOf(p) = {}
        /\ DimRowsOf(p) = {}

\* a product seen twice, priced at the earlier instant and without price at
\* the later one, next to a product that does get its rows
C28_Witness ==
    /\ Returned
    /\ OlderPricedDiscarded(Reading(raw_df))
    /\ fact_df # <<>>
    /\ dim_df # <<>>

(***************************************************************************)
(* Properties of load_all_tables                                           *)
(***************************************************************************)
LoadAllRaised == called = "load_all_tables" /\ ret.k = "raise"

FactLoaded ==
    /\ fact_load = Ret(arg)
    /\ fact_daily_snapshot =
           write_truncate(snapshot_before, strptime_date(arg), fact_zone[arg].rows)

DimensionLoaded ==
    /\ dim_load = Ret(arg)
    /\ Ret(dim_products) = products_merge_query(products_before, dim_zone[arg].rows)

CategoriesLoaded ==
    /\ load_pc = "returned"
    /\ dim_categories = merge_query(NoCategories, clean_cat.rows)

TablesUnchanged ==
    /\ fact_daily_snapshot' = fact_daily_snapshot
    /\ dim_products' = dim_products
    /\ dim_categories' = dim_categories

FetchEnded == fetch_out # NotCalled

\* the call found a cache file younger than cache_ttl
YoungEntryFound == cache_found # NoObject /\ cache_found.age < cache_ttl

\* the call found a cache file no older than cache_ttl that can be read
ReadableEntryFound ==
    /\ cache_found # NoObject
    /\ cache_found.age <= cache_ttl
    /\ cache_found.readable

FirstWithRows ==
    IF \E n \in DOMAIN responses : HasRows(responses[n])
    THEN responses[Min({n \in DOMAIN responses : HasRows(responses[n])})].v
    ELSE NULL

\* attempts are made until the first response with rows, max_retries at most
AttemptsUntilRows ==
    /\ responses # <<>>
    /\ Len(responses) <= max_retries
    /\ \A n \in 1..(Len(responses) - 1) : ~HasRows(responses[n])
    /\ Len(responses) < max_retries => HasRows(responses[Len(responses)])

\* before attempt n > 1 the call slept min(base_delay * 2^(n-2), max_delay)
\* seconds and a jitter of the range
BackoffBeforeRetries ==
    /\ Len(waited) = IF responses = <<>> THEN 0 ELSE Len(responses) - 1
    /\ \A n \in 2..Len(responses) :
          waited[n - 1] - Min({base_delay * Exp2(n - 2), max_delay}) \in 5..15

====
